---- MODULE Spec2Model ----
(***************************************************************************)
(* A model of the WhatsApp chat analyzer's core: the transcript parser of  *)
(* execution/chat_parser.py and the aggregation engine of                  *)
(* execution/metrics_calculator.py.                                        *)
(*                                                                         *)
(* Text is modelled character by character: a Python str is a sequence of  *)
(* one-character strings.  The four non-ASCII characters the parser treats *)
(* specially are written by name ("BOM", "LRM", "NNBSP", "NBSP").          *)
(***************************************************************************)
EXTENDS Integers, Sequences, FiniteSets, TLC

VARIABLES
    pc,               \* which program is running and where it stands
    lines,            \* parser: the lines of the file read so far
    messages,         \* parser: the list `messages`; engine: self.messages
    current_message,  \* parser: the entry being built, or None
    content,          \* classifier: the content string under classification
    engine,           \* the other fields of a MetricsCalculator, or None
    frame,            \* the locals of the calls in progress, or None
    result,           \* the value returned by the last call
    session_state,    \* app: st.session_state, or None
    widgets,          \* app: what the last run of the script put on the page
    razorpay          \* app: the keys and the orders at the payment gateway

vars ==
    <<pc, lines, messages, current_message, content, engine, frame, result,
      session_state, widgets, razorpay>>

\* Python's None.  An optional record or string is None or the value itself;
\* an Optional[int] is None or the one-element tuple <<n>>.
None == <<>>

Some(n) == <<n>>

(***************************************************************************)
(* Characters and the str methods the parser uses                          *)
(***************************************************************************)
BOM == "BOM"

LRM == "LRM"

NNBSP == "NNBSP"

NBSP == "NBSP"

NL == "\n"

Digits == <<"0", "1", "2", "3", "4", "5", "6", "7", "8", "9">>

DigitChars == {Digits[i] : i \in 1..10}

IsDigit(c) == c \in DigitChars

DigitValue == [c \in DigitChars |-> (CHOOSE i \in 1..10 : Digits[i] = c) - 1]

DigitVal(c) == DigitValue[c]

WhiteSpace == {" ", "\t", "\n", "\r", NNBSP, NBSP}

\* str.isspace / the regex class \s over the characters of the model
IsSpace(c) == c \in WhiteSpace

UpperCase ==
    <<"A","B","C","D","E","F","G","H","I","J","K","L","M",
      "N","O","P","Q","R","S","T","U","V","W","X","Y","Z">>

LowerCase ==
    <<"a","b","c","d","e","f","g","h","i","j","k","l","m",
      "n","o","p","q","r","s","t","u","v","w","x","y","z">>

UpperCaseLetters == {UpperCase[i] : i \in 1..26}

LowerOf == [c \in UpperCaseLetters |-> LowerCase[CHOOSE i \in 1..26 : UpperCase[i] = c]]

lower_char(c) == IF c \in UpperCaseLetters THEN LowerOf[c] ELSE c

\* str.lower()
lower(s) == IF s = <<>> THEN <<>> ELSE [i \in 1..Len(s) |-> lower_char(s[i])]

\* the `in` operator on two str values
contains(s, p) ==
    \E i \in 0..(Len(s) - Len(p)) : \A j \in 1..Len(p) : s[i + j] = p[j]

\* str.lstrip(chars)
lstrip_chars(s, cs) ==
    IF \A i \in 1..Len(s) : s[i] \in cs THEN <<>>
    ELSE LET a == CHOOSE i \in 1..Len(s) :
                     /\ s[i] \notin cs
                     /\ \A j \in 1..(i - 1) : s[j] \in cs
         IN  SubSeq(s, a, Len(s))

\* str.rstrip(chars)
rstrip_chars(s, cs) ==
    IF \A i \in 1..Len(s) : s[i] \in cs THEN <<>>
    ELSE LET b == CHOOSE i \in 1..Len(s) :
                     /\ s[i] \notin cs
                     /\ \A j \in (i + 1)..Len(s) : s[j] \in cs
         IN  SubSeq(s, 1, b)

\* str.strip()
strip(s) == rstrip_chars(lstrip_chars(s, WhiteSpace), WhiteSpace)

RECURSIVE replace(_, _, _)
\* str.replace(old, new), old non-empty
replace(s, old, new) ==
    IF Len(s) < Len(old) THEN s
    ELSE IF SubSeq(s, 1, Len(old)) = old
         THEN new \o replace(SubSeq(s, Len(old) + 1, Len(s)), old, new)
         ELSE <<s[1]>> \o replace(Tail(s), old, new)

RECURSIVE int(_)
\* int() of a string of decimal digits
int(ds) ==
    IF ds = <<>> THEN 0
    ELSE 10 * int(SubSeq(ds, 1, Len(ds) - 1)) + DigitVal(ds[Len(ds)])

(***************************************************************************)
(* String constants of chat_parser.py                                      *)
(***************************************************************************)
SKIP_PATTERNS ==
  << <<"M","e","s","s","a","g","e","s"," ","a","n","d"," ","c","a","l","l","s"," ","a","r","e"," ","e","n","d","-","t","o","-","e","n","d"," ","e","n","c","r","y","p","t","e","d">>,
     <<"s","e","c","u","r","i","t","y"," ","c","o","d","e"," ","c","h","a","n","g","e","d">>,
     <<"c","r","e","a","t","e","d"," ","g","r","o","u","p">>,
     <<"a","d","d","e","d"," ","y","o","u">>,
     <<"l","e","f","t"," ","t","h","e"," ","g","r","o","u","p">>,
     <<"c","h","a","n","g","e","d"," ","t","h","e"," ","g","r","o","u","p">>,
     <<"Y","o","u","'","r","e"," ","n","o","w"," ","a","n"," ","a","d","m","i","n">> >>

EDITED_TAG == <<"<","T","h","i","s"," ","m","e","s","s","a","g","e"," ","w","a","s"," ","e","d","i","t","e","d",">">>

S_image_omitted == <<"i","m","a","g","e"," ","o","m","i","t","t","e","d">>

S_video_omitted == <<"v","i","d","e","o"," ","o","m","i","t","t","e","d">>

S_audio_omitted == <<"a","u","d","i","o"," ","o","m","i","t","t","e","d">>

S_sticker_omitted == <<"s","t","i","c","k","e","r"," ","o","m","i","t","t","e","d">>

S_gif_omitted == <<"g","i","f"," ","o","m","i","t","t","e","d">>

S_document_omitted == <<"d","o","c","u","m","e","n","t"," ","o","m","i","t","t","e","d">>

S_location == <<"l","o","c","a","t","i","o","n",":">>

S_live_location_shared == <<"l","i","v","e"," ","l","o","c","a","t","i","o","n"," ","s","h","a","r","e","d">>

S_contact_card_omitted == <<"c","o","n","t","a","c","t"," ","c","a","r","d"," ","o","m","i","t","t","e","d">>

S_video_call == <<"v","i","d","e","o"," ","c","a","l","l">>

S_voice_call == <<"v","o","i","c","e"," ","c","a","l","l">>

S_call == <<"c","a","l","l">>

S_video == <<"v","i","d","e","o">>

S_missed == <<"m","i","s","s","e","d">>

S_no_answer == <<"n","o"," ","a","n","s","w","e","r">>

S_this_message_was_deleted == <<"t","h","i","s"," ","m","e","s","s","a","g","e"," ","w","a","s"," ","d","e","l","e","t","e","d">>

S_you_deleted_this_message == <<"y","o","u"," ","d","e","l","e","t","e","d"," ","t","h","i","s"," ","m","e","s","s","a","g","e">>

S_hr == <<"h","r">>

S_min == <<"m","i","n">>

S_sec == <<"s","e","c">>

(***************************************************************************)
(* parse_call_duration                                                     *)
(***************************************************************************)
\* the end of the run of characters satisfying P that starts at position p
\* (p - 1 when the run is empty)
DigitRunEnd(s, p) ==
    CHOOSE e \in (p - 1)..Len(s) :
        /\ \A j \in p..e : IsDigit(s[j])
        /\ (e = Len(s) \/ ~IsDigit(s[e + 1]))

SpaceRunEnd(s, p) ==
    CHOOSE e \in (p - 1)..Len(s) :
        /\ \A j \in p..e : IsSpace(s[j])
        /\ (e = Len(s) \/ ~IsSpace(s[e + 1]))

\* does <unit>, in any case, follow position w of s
UnitAt(s, w, unit) ==
    /\ w + Len(unit) <= Len(s)
    /\ lower(SubSeq(s, w + 1, w + Len(unit))) = unit

\* does re.search(r'(\d+)\s*<unit>', s, re.IGNORECASE) match with the
\* digit run that starts at p
QuantityAt(s, p, unit) ==
    /\ IsDigit(s[p])
    /\ (p = 1 \/ ~IsDigit(s[p - 1]))
    /\ UnitAt(s, SpaceRunEnd(s, DigitRunEnd(s, p) + 1), unit)

\* group(1) of the match whose digit run starts at p
DigitRun(s, p) == SubSeq(s, p, DigitRunEnd(s, p))

\* group(1) of the leftmost of the matches that start at `starts`, or None
LeftmostGroup(s, starts) ==
    IF starts = {} THEN None
    ELSE DigitRun(s, CHOOSE q \in starts : \A r \in starts : q <= r)

\* re.search(r'(\d+)\s*<unit>', s, re.IGNORECASE): group(1) of the leftmost
\* match, or None
re_search_quantity(s, unit) ==
    LeftmostGroup(s, {p \in 1..Len(s) : QuantityAt(s, p, unit)})

\* "if hr_match: total_seconds += int(hr_match.group(1)) * 3600", and the
\* same for minutes and seconds: what one match adds to total_seconds
Seconds(match, scale) == IF match # None THEN int(match) * scale ELSE 0

\* "return total_seconds if total_seconds > 0 else None"
PositiveOrNone(total_seconds) ==
    IF total_seconds > 0 THEN Some(total_seconds) ELSE None

\* parse_call_duration, returning the total even when it is 0
parse_call_duration_ZeroKept(c) ==
    IF contains(lower(c), S_no_answer) \/ contains(lower(c), S_missed)
    THEN None
    ELSE Some(Seconds(re_search_quantity(c, S_hr), 3600)
              + Seconds(re_search_quantity(c, S_min), 60)
              + Seconds(re_search_quantity(c, S_sec), 1))

parse_call_duration(c) ==
    IF contains(lower(c), S_no_answer) \/ contains(lower(c), S_missed)
    THEN None
    ELSE PositiveOrNone(Seconds(re_search_quantity(c, S_hr), 3600)
                        + Seconds(re_search_quantity(c, S_min), 60)
                        + Seconds(re_search_quantity(c, S_sec), 1))

(***************************************************************************)
(* classify_message_type                                                   *)
(***************************************************************************)
MessageType ==
    {"TEXT", "IMAGE", "VIDEO", "AUDIO", "STICKER", "GIF", "DOCUMENT",
     "VIDEO_CALL", "VOICE_CALL", "MISSED_VIDEO_CALL", "MISSED_VOICE_CALL",
     "DELETED", "SYSTEM", "LOCATION", "CONTACT"}

\* the tuple (MessageType, call_duration_seconds, is_edited)
Classified(t, d, e) == [message_type |-> t, call_duration_seconds |-> d, is_edited |-> e]

\* "Media patterns": the first of the eight tests that holds
MediaRule(content_lower, is_edited) ==
    IF contains(content_lower, S_image_omitted) THEN Classified("IMAGE", None, is_edited)
    ELSE IF contains(content_lower, S_video_omitted) THEN Classified("VIDEO", None, is_edited)
    ELSE IF contains(content_lower, S_audio_omitted) THEN Classified("AUDIO", None, is_edited)
    ELSE IF contains(content_lower, S_sticker_omitted) THEN Classified("STICKER", None, is_edited)
    ELSE IF contains(content_lower, S_gif_omitted) THEN Classified("GIF", None, is_edited)
    ELSE IF contains(content_lower, S_document_omitted) THEN Classified("DOCUMENT", None, is_edited)
    ELSE IF contains(content_lower, S_location) \/ contains(content_lower, S_live_location_shared)
         THEN Classified("LOCATION", None, is_edited)
    ELSE IF contains(content_lower, S_contact_card_omitted) THEN Classified("CONTACT", None, is_edited)
    ELSE None

\* IsVoiceCall without the test for "voice call"
IsVoiceCall_CallOnly(content_lower) ==
    contains(content_lower, S_call) /\ ~contains(content_lower, S_video)

\* the test that guards the voice-call branch
IsVoiceCall(content_lower) ==
    \/ contains(content_lower, S_voice_call)
    \/ (contains(content_lower, S_call) /\ ~contains(content_lower, S_video))

\* "Call patterns"
CallRule(c, content_lower, is_edited) ==
    LET missed == contains(content_lower, S_missed) \/ contains(content_lower, S_no_answer)
    IN  IF contains(content_lower, S_video_call)
        THEN LET duration == parse_call_duration(c)
             IN  IF missed THEN Classified("MISSED_VIDEO_CALL", None, is_edited)
                 ELSE Classified("VIDEO_CALL", duration, is_edited)
        ELSE IF IsVoiceCall(content_lower)
        THEN LET duration == parse_call_duration(c)
             IN  IF missed THEN Classified("MISSED_VOICE_CALL", None, is_edited)
                 ELSE Classified("VOICE_CALL", duration, is_edited)
        ELSE None

\* "Deleted message"
DeletedRule(content_lower, is_edited) ==
    IF \/ contains(content_lower, S_this_message_was_deleted)
       \/ contains(content_lower, S_you_deleted_this_message)
    THEN Classified("DELETED", None, is_edited)
    ELSE None

\* the result of the first rule that applies, in the order the rules are
\* tested, or the default
FirstRule(first, second, third, default) ==
    IF first # None THEN first
    ELSE IF second # None THEN second
    ELSE IF third # None THEN third
    ELSE default

\* classify_message_type, testing the call patterns before the media patterns
classify_message_type_CallFirst(c) ==
    LET content_lower == strip(lower(c))
        is_edited == contains(c, EDITED_TAG) \/ contains(c, <<LRM>> \o EDITED_TAG)
        media   == MediaRule(content_lower, is_edited)
        call    == CallRule(c, content_lower, is_edited)
        deleted == DeletedRule(content_lower, is_edited)
    IN  FirstRule(call, media, deleted, Classified("TEXT", None, is_edited))

classify_message_type(c) ==
    LET content_lower == strip(lower(c))
        is_edited == contains(c, EDITED_TAG) \/ contains(c, <<LRM>> \o EDITED_TAG)
        media   == MediaRule(content_lower, is_edited)
        call    == CallRule(c, content_lower, is_edited)
        deleted == DeletedRule(content_lower, is_edited)
    IN  FirstRule(media, call, deleted, Classified("TEXT", None, is_edited))

(***************************************************************************)
(* TIMESTAMP_PATTERN, SYSTEM_PATTERN and parse_timestamp                   *)
(***************************************************************************)
\* the position of the colon after the hour: \d{1,2} takes two digits when
\* it can
HourEnd(s, p) == IF p + 1 <= Len(s) /\ IsDigit(s[p + 1]) THEN p + 1 ELSE p

\* the common prefix of both patterns,
\*   ^\[(\d{2}/\d{2}/\d{2}), (\d{1,2}:\d{2}:\d{2}[\s\u202f]*[AP]M)\]<space>
\* returns the position of the M of the AM/PM marker, or 0 for no match
StampPrefix(line) ==
    LET n == Len(line)
        q == HourEnd(line, 12) + 1
        a == IF n >= q + 5 THEN SpaceRunEnd(line, q + 6) + 1 ELSE n + 1
    IN  IF /\ n >= 12
           /\ line[1] = "["
           /\ \A i \in {2, 3, 5, 6, 8, 9, 12} : IsDigit(line[i])
           /\ line[4] = "/" /\ line[7] = "/"
           /\ line[10] = "," /\ line[11] = " "
           /\ n >= q + 5
           /\ line[q] = ":" /\ line[q + 3] = ":"
           /\ \A i \in {q + 1, q + 2, q + 4, q + 5} : IsDigit(line[i])
           /\ n >= a + 3
           /\ line[a] \in {"A", "P"} /\ line[a + 1] = "M"
           /\ line[a + 2] = "]" /\ line[a + 3] = " "
        THEN a + 1
        ELSE 0

\* TIMESTAMP_PATTERN.match(line): the four groups, or None.  (.+?) is the
\* shortest non-empty sender that is followed by a colon and a space.
TIMESTAMP_PATTERN_match(line) ==
    LET m == StampPrefix(line)
        n == Len(line)
        colons == {i \in (m + 4)..(n - 1) : line[i] = ":" /\ line[i + 1] = " "}
    IN  IF m = 0 \/ colons = {} THEN None
        ELSE LET c == CHOOSE i \in colons : \A j \in colons : i <= j
             IN  [date_str |-> SubSeq(line, 2, 9),
                  time_str |-> SubSeq(line, 12, m),
                  sender   |-> SubSeq(line, m + 3, c - 1),
                  content  |-> SubSeq(line, c + 2, n)]

\* SYSTEM_PATTERN.match(line) is not None
SYSTEM_PATTERN_match(line) ==
    LET m == StampPrefix(line) IN m # 0 /\ Len(line) >= m + 3

IsLeap(y) == (y % 4 = 0) /\ ((y % 100 # 0) \/ (y % 400 = 0))

DaysInMonth(y, m) ==
    IF m = 2 THEN (IF IsLeap(y) THEN 29 ELSE 28)
    ELSE IF m \in {4, 6, 9, 11} THEN 30 ELSE 31

\* datetime(year, month, day, hour, minute, second)
datetime(y, mo, d, h, mi, s) ==
    [year |-> y, month |-> mo, day |-> d, hour |-> h, minute |-> mi, second |-> s]

\* datetime < datetime
dt_lt(a, b) ==
    LET ka == <<a.year, a.month, a.day, a.hour, a.minute, a.second>>
        kb == <<b.year, b.month, b.day, b.hour, b.minute, b.second>>
    IN  \E i \in 1..6 : ka[i] < kb[i] /\ \A j \in 1..(i - 1) : ka[j] = kb[j]

\* the exception strptime raises
ValueError == [exception |-> "ValueError"]

\* strptime, with a format that needs no whitespace before AM/PM
strptime_NoBlankNeeded(s) ==
    LET d  == int(SubSeq(s, 1, 2))
        mo == int(SubSeq(s, 4, 5))
        yy == int(SubSeq(s, 7, 8))
        he == HourEnd(s, 10)
        h  == int(SubSeq(s, 10, he))
        mi == int(SubSeq(s, he + 2, he + 3))
        se == int(SubSeq(s, he + 5, he + 6))
        pm == s[Len(s) - 1] = "P"
        y  == IF yy <= 68 THEN 2000 + yy ELSE 1900 + yy
        hour == IF pm THEN (IF h = 12 THEN 12 ELSE h + 12)
                      ELSE (IF h = 12 THEN 0 ELSE h)
    IN  IF /\ d >= 1 /\ d <= DaysInMonth(y, mo)
           /\ mo >= 1 /\ mo <= 12
           /\ h >= 1 /\ h <= 12
           /\ mi <= 59
           /\ se <= 59
        THEN datetime(y, mo, d, hour, mi, se)
        ELSE ValueError

\* datetime.strptime(s, "%d/%m/%y %I:%M:%S %p") for s = date_str, a space
\* and time_str, the two being groups of TIMESTAMP_PATTERN: every directive
\* must match (day 01-31, month 01-12, hour 1-12, minute 00-59, second
\* 00-61), the blank of the format needs at least one whitespace
\* character, and the date and time must exist.
strptime(s) ==
    LET d  == int(SubSeq(s, 1, 2))
        mo == int(SubSeq(s, 4, 5))
        yy == int(SubSeq(s, 7, 8))
        he == HourEnd(s, 10)
        h  == int(SubSeq(s, 10, he))
        mi == int(SubSeq(s, he + 2, he + 3))
        se == int(SubSeq(s, he + 5, he + 6))
        blanks == (Len(s) - 2) - (he + 6)
        pm == s[Len(s) - 1] = "P"
        y  == IF yy <= 68 THEN 2000 + yy ELSE 1900 + yy
        hour == IF pm THEN (IF h = 12 THEN 12 ELSE h + 12)
                      ELSE (IF h = 12 THEN 0 ELSE h)
    IN  IF /\ d >= 1 /\ d <= 31
           /\ mo >= 1 /\ mo <= 12
           /\ h >= 1 /\ h <= 12
           /\ mi <= 59
           /\ se <= 61
           /\ blanks >= 1
           /\ d <= DaysInMonth(y, mo)
           /\ se <= 59
        THEN datetime(y, mo, d, hour, mi, se)
        ELSE ValueError

parse_timestamp(date_str, time_str) ==
    LET t == replace(replace(time_str, <<NNBSP>>, <<" ">>), <<NBSP>>, <<" ">>)
    IN  strptime(date_str \o <<" ">> \o t)

\* should_skip_message, comparing without lower()
should_skip_message_CaseSensitive(c) ==
    \E i \in 1..Len(SKIP_PATTERNS) : contains(c, SKIP_PATTERNS[i])

should_skip_message(c) ==
    \E i \in 1..Len(SKIP_PATTERNS) : contains(lower(c), lower(SKIP_PATTERNS[i]))

(***************************************************************************)
(* parse_whatsapp_chat                                                     *)
(***************************************************************************)
Message(ts, sender, c, type, raw, dur, edited) ==
    [timestamp |-> ts, sender |-> sender, content |-> c, message_type |-> type,
     raw_line |-> raw, call_duration_seconds |-> dur, is_edited |-> edited]

\* append, keeping the list sorted by timestamp
append_Sorted(list, m) ==
    LET before == SelectSeq(list, LAMBDA x : ~dt_lt(m.timestamp, x.timestamp))
        after  == SelectSeq(list, LAMBDA x : dt_lt(m.timestamp, x.timestamp))
    IN  before \o <<m>> \o after

\* messages.append(current_message)
append(list, m) == Append(list, m)

\* SavePrevious, appending the open entry twice
SavePrevious_Twice ==
    IF current_message # None
    THEN append(append(messages, current_message), current_message)
    ELSE messages

\* "Save previous message if exists"
SavePrevious == IF current_message # None THEN append(messages, current_message) ELSE messages

\* the entry a boundary line opens, or None when the line is dropped
NewMessage(line, match) ==
    LET c      == strip(replace(match.content, <<LRM>>, <<>>))
        sender == strip(match.sender)
        ts     == parse_timestamp(match.date_str, match.time_str)
        cls    == classify_message_type(c)
        clean  == strip(replace(replace(c, EDITED_TAG, <<>>), <<LRM>> \o EDITED_TAG, <<>>))
    IN  IF should_skip_message(c) THEN None
        ELSE IF ts = ValueError THEN None
        ELSE Message(ts, sender, clean, cls.message_type, line,
                     cls.call_duration_seconds, cls.is_edited)

\* what the loop body computes from the line alone: the line without BOM
\* and line end, its stripped text, the match of TIMESTAMP_PATTERN with the
\* entry it opens, and whether SYSTEM_PATTERN matches
ScanLine(raw) ==
    LET line  == rstrip_chars(lstrip_chars(raw, {BOM}), {"\n", "\r"})
        match == TIMESTAMP_PATTERN_match(line)
    IN  [line      |-> line,
         stripped  |-> strip(line),
         match     |-> match,
         new       |-> IF match # None THEN NewMessage(line, match) ELSE None,
         sys_match |-> SYSTEM_PATTERN_match(line)]

\* Continuation, appending the line as it is instead of its stripped text
Continuation_Unstripped(scan) ==
    IF scan.sys_match /\ current_message = None THEN current_message
    ELSE IF current_message # None
         THEN [current_message EXCEPT !.content = @ \o <<NL>> \o scan.line,
                                      !.raw_line = @ \o <<NL>> \o scan.line]
         ELSE current_message

\* Continuation, with the kind taken anew from the line appended
Continuation_Reclassified(scan) ==
    IF scan.sys_match /\ current_message = None THEN current_message
    ELSE IF current_message # None
         THEN [current_message EXCEPT
                  !.content = @ \o <<NL>> \o scan.stripped,
                  !.raw_line = @ \o <<NL>> \o scan.line,
                  !.message_type = classify_message_type(scan.stripped).message_type]
         ELSE current_message

\* "This is a continuation of the previous message"
Continuation(scan) ==
    IF scan.sys_match /\ current_message = None THEN current_message
    ELSE IF current_message # None
         THEN [current_message EXCEPT !.content = @ \o <<NL>> \o scan.stripped,
                                      !.raw_line = @ \o <<NL>> \o scan.line]
         ELSE current_message

(***************************************************************************)
(* The lines a transcript file is made of                                  *)
(***************************************************************************)
\* [01/02/23, 9:15:03 PM] Alice: hello
Line_hello ==
    <<"[","0","1","/","0","2","/","2","3",","," ","9",":","1","5",":","0","3"," ","P","M","]"," ","A","l","i","c","e",":"," ","h","e","l","l","o","\n">>

\* <BOM>[31/01/23, 8:00:00<NNBSP>AM] Bob: <LRM>hi <This message was edited>
Line_hi ==
    <<"BOM","[","3","1","/","0","1","/","2","3",","," ","8",":","0","0",":","0","0","NNBSP","A","M","]"," ","B","o","b",":"," ","LRM","h","i"," ","<","T","h","i","s"," ","m","e","s","s","a","g","e"," ","w","a","s"," ","e","d","i","t","e","d",">","\n">>

\* a continuation line with blanks around it: "  world "
Line_world ==
    <<" "," ","w","o","r","l","d"," ","\n">>

\* a blank line
Line_blank ==
    <<" ","\n">>

\* [01/02/23, 9:16:00 PM] Bob: Bob Created Group
Line_noise ==
    <<"[","0","1","/","0","2","/","2","3",","," ","9",":","1","6",":","0","0"," ","P","M","]"," ","B","o","b",":"," ","B","o","b"," ","C","r","e","a","t","e","d"," ","G","r","o","u","p","\n">>

\* [31/02/23, 9:17:00 PM] Bob: oops          (no 31st of February)
Line_badts ==
    <<"[","3","1","/","0","2","/","2","3",","," ","9",":","1","7",":","0","0"," ","P","M","]"," ","B","o","b",":"," ","o","o","p","s","\n">>

\* [01/02/23, 9:17:00PM] Bob: oops           (no blank before PM)
Line_nospace ==
    <<"[","0","1","/","0","2","/","2","3",","," ","9",":","1","7",":","0","0","P","M","]"," ","B","o","b",":"," ","o","o","p","s","\n">>

\* [01/02/23, 9:20:00 PM] Alice: Voice call, 1 hr 5 min
Line_call ==
    <<"[","0","1","/","0","2","/","2","3",","," ","9",":","2","0",":","0","0"," ","P","M","]"," ","A","l","i","c","e",":"," ","V","o","i","c","e"," ","c","a","l","l",","," ","1"," ","h","r"," ","5"," ","m","i","n","\n">>

\* [01/02/23, 9:23:00 PM] Alice joined       (matches SYSTEM_PATTERN only)
Line_sys ==
    <<"[","0","1","/","0","2","/","2","3",","," ","9",":","2","3",":","0","0"," ","P","M","]"," ","A","l","i","c","e"," ","j","o","i","n","e","d","\n">>

FileLines ==
    {Line_hello, Line_hi, Line_world, Line_blank, Line_noise, Line_badts,
     Line_nospace, Line_call, Line_sys}

\* the longest file read
MaxLines == 4

\* ScanLine, evaluated once for each line of FileLines
Scanned == [raw \in FileLines |-> ScanLine(raw)]

(***************************************************************************)
(* parse_whatsapp_chat as a state machine: one step per line of the file,  *)
(* then the end of the file                                                *)
(***************************************************************************)
InitParse ==
    /\ pc = "reading"
    /\ lines = <<>>
    /\ messages = <<>>
    /\ current_message = None
    /\ content = None
    /\ engine = None
    /\ frame = None
    /\ result = None
    /\ session_state = None
    /\ widgets = None
    /\ razorpay = None

\* the body of `for line_num, line in enumerate(f, 1)` for the line raw,
\* scan being ScanLine(raw)
LoopBody(raw, scan) ==
    /\ lines' = Append(lines, raw)
    /\ IF scan.stripped = <<>>
       THEN UNCHANGED <<messages, current_message>>
       ELSE IF scan.match # None
            THEN /\ messages' = SavePrevious
                 /\ current_message' = scan.new
            ELSE /\ messages' = messages
                 /\ current_message' = Continuation(scan)
    /\ UNCHANGED <<pc, content, engine, frame, result, session_state, widgets, razorpay>>

\* the next line of the file is raw
ReadLine(raw) ==
    /\ pc = "reading"
    /\ Len(lines) < MaxLines
    /\ LoopBody(raw, Scanned[raw])

\* "Don't forget the last message", and return messages
EndOfFile ==
    /\ pc = "reading"
    /\ messages' = SavePrevious
    /\ pc' = "done"
    /\ result' = messages'
    /\ UNCHANGED <<lines, current_message, content, engine, frame, session_state, widgets, razorpay>>

Next ==
    \/ \E raw \in FileLines : ReadLine(raw)
    \/ EndOfFile

Spec == InitParse /\ [][Next]_vars

(***************************************************************************)
(* Classification of one content string: classify_message_type and         *)
(* parse_call_duration called on it, and the parser reading the one-line   *)
(* file "[01/02/23, 9:15:03 PM] Alice: <content>"                          *)
(***************************************************************************)
Fragments ==
    << <<"i","m","a","g","e"," ","o","m","i","t","t","e","d">>,
       <<"V","i","d","e","o"," ","c","a","l","l">>,
       <<"V","o","i","c","e"," ","c","a","l","l">>,
       <<"c","a","l","l">>,
       <<"v","i","d","e","o">>,
       <<"M","i","s","s","e","d">>,
       <<"N","o"," ","a","n","s","w","e","r">>,
       <<"1"," ","h","r">>,
       <<"5"," ","m","i","n">>,
       <<"7"," ","s","e","c">>,
       <<"0"," ","s","e","c">>,
       <<"T","h","i","s"," ","m","e","s","s","a","g","e"," ","w","a","s"," ","d","e","l","e","t","e","d">> >>

\* the most fragments in one content string
MaxFrags == 3

RECURSIVE Join(_)
\* the fragments numbered by ix, separated by single blanks
Join(ix) ==
    IF ix = <<>> THEN <<>>
    ELSE IF Len(ix) = 1 THEN Fragments[ix[1]]
    ELSE Fragments[ix[1]] \o <<" ">> \o Join(Tail(ix))

Contents ==
    {Join(ix) : ix \in UNION {[1..n -> 1..Len(Fragments)] : n \in 0..MaxFrags}}

EntryPrefix ==
    <<"[","0","1","/","0","2","/","2","3",","," ","9",":","1","5",":","0","3"," ","P","M","]"," ","A","l","i","c","e",":"," ">>

InitClassify ==
    /\ pc = "reading"
    /\ lines = <<>>
    /\ messages = <<>>
    /\ current_message = None
    /\ content \in Contents
    /\ engine = None
    /\ frame = None
    /\ result = None
    /\ session_state = None
    /\ widgets = None
    /\ razorpay = None

\* classify_message_type(content)
Classify ==
    /\ pc = "reading"
    /\ lines = <<>>
    /\ result' = classify_message_type(content)
    /\ pc' = "classified"
    /\ UNCHANGED <<lines, messages, current_message, content, engine, frame, session_state, widgets, razorpay>>

\* parse_call_duration(content)
ParseCallDuration ==
    /\ pc = "reading"
    /\ lines = <<>>
    /\ result' = parse_call_duration(content)
    /\ pc' = "duration"
    /\ UNCHANGED <<lines, messages, current_message, content, engine, frame, session_state, widgets, razorpay>>

\* the file line that carries a content
ContentLine(c) == EntryPrefix \o c \o <<"\n">>

\* the parser reads the only line of the file
ReadContentLine ==
    /\ pc = "reading"
    /\ lines = <<>>
    /\ LoopBody(ContentLine(content), ScanLine(ContentLine(content)))

NextClassify ==
    \/ Classify
    \/ ParseCallDuration
    \/ ReadContentLine
    \/ EndOfFile

SpecClassify == InitClassify /\ [][NextClassify]_vars

(***************************************************************************)
(* datetime and timedelta arithmetic                                       *)
(***************************************************************************)
RECURSIVE DaysBeforeMonth(_, _)
DaysBeforeMonth(y, m) ==
    IF m = 1 THEN 0 ELSE DaysBeforeMonth(y, m - 1) + DaysInMonth(y, m - 1)

\* datetime.toordinal(): the day number of the date, 1 for 0001-01-01
toordinal(dt) ==
    LET y == dt.year - 1
    IN  y * 365 + (y \div 4) - (y \div 100) + (y \div 400)
        + DaysBeforeMonth(dt.year, dt.month) + dt.day

\* timedelta(days=d, seconds=s), normalised so that 0 <= seconds < 86400
timedelta(d, s) == [days |-> d + (s \div 86400), seconds |-> s % 86400]

\* datetime - datetime
dt_sub(a, b) ==
    timedelta(toordinal(a) - toordinal(b),
              (a.hour * 3600 + a.minute * 60 + a.second)
              - (b.hour * 3600 + b.minute * 60 + b.second))

\* timedelta >= timedelta
td_ge(x, y) == x.days > y.days \/ (x.days = y.days /\ x.seconds >= y.seconds)

(***************************************************************************)
(* MetricsCalculator                                                       *)
(***************************************************************************)
\* an empty dict, and `d[k] += n` on a defaultdict(int)
EmptyDict == <<>>

DictAdd(d, k, n) ==
    IF k \in DOMAIN d THEN [d EXCEPT ![k] = @ + n] ELSE (k :> n) @@ d

\* CreditStreak, crediting the whole streak
CreditStreak_WholeStreak(double_counts, current_sender, streak) ==
    IF streak >= 2 THEN DictAdd(double_counts, current_sender, streak)
    ELSE double_counts

\* "if streak >= 2: double_counts[current_sender] += streak - 1"
CreditStreak(double_counts, current_sender, streak) ==
    IF streak >= 2 THEN DictAdd(double_counts, current_sender, streak - 1)
    ELSE double_counts

RECURSIVE DoubleScan(_, _, _, _)
\* `for msg in self.messages[1:]` of get_double_messages, then the last streak
DoubleScan(rest, current_sender, streak, double_counts) ==
    IF rest = <<>> THEN CreditStreak(double_counts, current_sender, streak)
    ELSE IF Head(rest).sender = current_sender
         THEN DoubleScan(Tail(rest), current_sender, streak + 1, double_counts)
         ELSE DoubleScan(Tail(rest), Head(rest).sender, 1,
                         CreditStreak(double_counts, current_sender, streak))

\* get_double_messages, the first streak counted from 0
get_double_messages_StreakFromZero(msgs) ==
    IF msgs = <<>> THEN EmptyDict
    ELSE DoubleScan(Tail(msgs), msgs[1].sender, 0, EmptyDict)

get_double_messages(msgs) ==
    IF msgs = <<>> THEN EmptyDict
    ELSE DoubleScan(Tail(msgs), msgs[1].sender, 1, EmptyDict)

\* GapReached with > for >=
GapReached_Strict(timestamp, prev_time, gap) ==
    LET d == dt_sub(timestamp, prev_time)
    IN  d.days > gap.days \/ (d.days = gap.days /\ d.seconds > gap.seconds)

\* "if msg.timestamp - prev_time >= gap"
GapReached(timestamp, prev_time, gap) == td_ge(dt_sub(timestamp, prev_time), gap)

RECURSIVE InitiationScan(_, _, _, _)
\* `for msg in self.messages[1:]` of get_conversation_initiations
InitiationScan(rest, prev_time, gap, initiations) ==
    IF rest = <<>> THEN initiations
    ELSE LET msg == Head(rest)
         IN  InitiationScan(Tail(rest), msg.timestamp, gap,
                            IF GapReached(msg.timestamp, prev_time, gap)
                            THEN DictAdd(initiations, msg.sender, 1)
                            ELSE initiations)

get_conversation_initiations(msgs, gap_hours) ==
    IF msgs = <<>> THEN EmptyDict
    ELSE InitiationScan(Tail(msgs), msgs[1].timestamp,
                        timedelta(0, gap_hours * 3600),
                        DictAdd(EmptyDict, msgs[1].sender, 1))

(***************************************************************************)
(* Numbers: a Python float is modelled by the fraction it stands for, in   *)
(* lowest terms; an int that is compared or mixed with floats (the 0 of    *)
(* `np.mean(times) if times else 0`) is the fraction n/1                   *)
(***************************************************************************)
RECURSIVE gcd(_, _)
gcd(a, b) == IF b = 0 THEN a ELSE gcd(b, a % b)

abs(n) == IF n < 0 THEN -n ELSE n

\* the positive number that reduces n/d to lowest terms
Reducer(n, d) == IF n = 0 THEN d ELSE gcd(abs(n), d)

Reduced(n, d, g) == [num |-> n \div g, den |-> d \div g]

\* the float n / d, d > 0
Float(n, d) == Reduced(n, d, Reducer(n, d))

f_add(x, y) == Float(x.num * y.den + y.num * x.den, x.den * y.den)

f_le(x, y) == x.num * y.den <= y.num * x.den

\* float / int and float * int
f_div(x, n) == Float(x.num, x.den * n)

f_mul(x, n) == Float(x.num * n, x.den)

RECURSIVE f_sum(_)
f_sum(xs) == IF xs = <<>> THEN Float(0, 1) ELSE f_add(Head(xs), f_sum(Tail(xs)))

\* np.mean of a non-empty list
np_mean(xs) == f_div(f_sum(xs), Len(xs))

\* the middle of a sorted non-empty list: np.median
Middle(sorted, k) ==
    IF Len(sorted) % 2 = 1 THEN sorted[k + 1]
    ELSE f_div(f_add(sorted[k], sorted[k + 1]), 2)

np_median(xs) ==
    Middle(SortSeq(xs, LAMBDA x, y : ~f_le(y, x)), Len(xs) \div 2)

\* timedelta.total_seconds()
total_seconds(td) == td.days * 86400 + td.seconds

\* `d[k].append(x)` on a defaultdict(list)
DictAppend(d, k, x) ==
    IF k \in DOMAIN d THEN [d EXCEPT ![k] = Append(@, x)] ELSE (k :> <<x>>) @@ d

(***************************************************************************)
(* MetricsCalculator: response times                                       *)
(***************************************************************************)
\* "delta = (current.timestamp - prev.timestamp).total_seconds() / 60"
Delta(current, prev) ==
    Float(total_seconds(dt_sub(current.timestamp, prev.timestamp)), 60)

\* "if delta <= 1440", excluding a delta of exactly 24 hours
WithinDay_Below(delta) == ~f_le(Float(1440, 1), delta)

\* "if delta <= 1440:  # 24 hours in minutes"
WithinDay(delta) == f_le(delta, Float(1440, 1))

\* the body of `for i in range(1, len(self.messages))`, bucketing by the
\* earlier sender of the pair
ResponseStep_ByPrev(response_times, current, prev) ==
    IF current.sender # prev.sender /\ WithinDay(Delta(current, prev))
    THEN DictAppend(response_times, prev.sender, Delta(current, prev))
    ELSE response_times

\* the body of `for i in range(1, len(self.messages))`
ResponseStep(response_times, current, prev) ==
    IF current.sender # prev.sender /\ WithinDay(Delta(current, prev))
    THEN DictAppend(response_times, current.sender, Delta(current, prev))
    ELSE response_times

RECURSIVE ResponseScan(_, _, _)
ResponseScan(msgs, i, response_times) ==
    IF i > Len(msgs) THEN response_times
    ELSE ResponseScan(msgs, i + 1, ResponseStep(response_times, msgs[i], msgs[i - 1]))

get_response_times(msgs) ==
    IF Len(msgs) < 2 THEN EmptyDict ELSE ResponseScan(msgs, 2, EmptyDict)

\* "np.mean(times) if times else 0"
MeanOrZero(times) == IF times # <<>> THEN np_mean(times) ELSE Float(0, 1)

\* "np.median(times) if times else 0"
MedianOrZero(times) == IF times # <<>> THEN np_median(times) ELSE Float(0, 1)

\* `{sender: np.mean(times) if times else 0 for sender, times in ...}`
MeanOfEach(response_times) ==
    [sender \in DOMAIN response_times |-> MeanOrZero(response_times[sender])]

get_average_response_time(msgs) == MeanOfEach(get_response_times(msgs))

MedianOfEach(response_times) ==
    [sender \in DOMAIN response_times |-> MedianOrZero(response_times[sender])]

get_median_response_time(msgs) == MedianOfEach(get_response_times(msgs))

\* "immediate = sum(1 for t in times if t <= threshold_minutes)"
Immediate(times, threshold_minutes) ==
    Len(SelectSeq(times, LAMBDA t : f_le(t, threshold_minutes)))

\* the body of the loop of get_immediate_replies_percentage
ImmediateShare(response_times, sender, threshold_minutes) ==
    IF response_times[sender] = <<>> THEN Float(0, 1)
    ELSE f_mul(Float(Immediate(response_times[sender], threshold_minutes),
                     Len(response_times[sender])), 100)

ImmediateOfEach(response_times, threshold_minutes) ==
    [sender \in DOMAIN response_times |->
        ImmediateShare(response_times, sender, threshold_minutes)]

get_immediate_replies_percentage(msgs, threshold_minutes) ==
    ImmediateOfEach(get_response_times(msgs), threshold_minutes)

(***************************************************************************)
(* MetricsCalculator: first message of the day, months                     *)
(***************************************************************************)
\* datetime.date()
date(dt) == [year |-> dt.year, month |-> dt.month, day |-> dt.day]

\* "key = (date, msg.sender)"
KeyOf(msg) == <<date(msg.timestamp), msg.sender>>

\* "key not in date_sender_first"; the dict is kept as the list of its
\* items in insertion order
HasKey(items, key) == \E i \in 1..Len(items) : items[i].key = key

\* FirstSeen, keeping the earliest timestamp of the key instead of the first
FirstSeen_Earliest(date_sender_first, msg) ==
    IF HasKey(date_sender_first, KeyOf(msg))
    THEN [i \in 1..Len(date_sender_first) |->
            IF date_sender_first[i].key = KeyOf(msg)
               /\ dt_lt(msg.timestamp, date_sender_first[i].value)
            THEN [key |-> KeyOf(msg), value |-> msg.timestamp]
            ELSE date_sender_first[i]]
    ELSE Append(date_sender_first, [key |-> KeyOf(msg), value |-> msg.timestamp])

\* "if key not in date_sender_first: date_sender_first[key] = msg.timestamp"
FirstSeen(date_sender_first, msg) ==
    IF HasKey(date_sender_first, KeyOf(msg)) THEN date_sender_first
    ELSE Append(date_sender_first, [key |-> KeyOf(msg), value |-> msg.timestamp])

RECURSIVE FirstSeenScan(_, _)
\* `for msg in self.messages` of get_first_response_time
FirstSeenScan(msgs, date_sender_first) ==
    IF msgs = <<>> THEN date_sender_first
    ELSE FirstSeenScan(Tail(msgs), FirstSeen(date_sender_first, Head(msgs)))

\* "hour = timestamp.hour + timestamp.minute / 60"
DecimalHour(timestamp) == Float(timestamp.hour * 60 + timestamp.minute, 60)

RECURSIVE FirstHours(_, _)
\* `for (date, sender), timestamp in date_sender_first.items()`
FirstHours(items, first_msg_times) ==
    IF items = <<>> THEN first_msg_times
    ELSE FirstHours(Tail(items),
                    DictAppend(first_msg_times, Head(items).key[2],
                               DecimalHour(Head(items).value)))

\* "np.mean(times) if times else 12.0"
MeanOrNoon(times) == IF times # <<>> THEN np_mean(times) ELSE Float(12, 1)

MeanHourOfEach(first_msg_times) ==
    [sender \in DOMAIN first_msg_times |-> MeanOrNoon(first_msg_times[sender])]

get_first_response_time(msgs) ==
    MeanHourOfEach(FirstHours(FirstSeenScan(msgs, <<>>), EmptyDict))

\* two and four decimal digits, zero padded
Pad2(n) == <<Digits[(n \div 10) + 1], Digits[(n % 10) + 1]>>

Pad4(n) == Pad2(n \div 100) \o Pad2(n % 100)

\* timestamp.strftime('%Y-%m')
strftime_Ym(dt) == Pad4(dt.year) \o <<"-">> \o Pad2(dt.month)

\* `monthly_responses[month_key][current.sender].append(delta)` on a
\* defaultdict of defaultdict(list)
MonthAppend(monthly, month_key, sender, x) ==
    IF month_key \in DOMAIN monthly
    THEN [monthly EXCEPT ![month_key] = DictAppend(@, sender, x)]
    ELSE (month_key :> DictAppend(EmptyDict, sender, x)) @@ monthly

\* the body of the loop of get_monthly_response_times
MonthlyStep(monthly, current, prev) ==
    IF current.sender # prev.sender /\ WithinDay(Delta(current, prev))
    THEN MonthAppend(monthly, strftime_Ym(current.timestamp), current.sender,
                     Delta(current, prev))
    ELSE monthly

RECURSIVE MonthlyScan(_, _, _)
MonthlyScan(msgs, i, monthly) ==
    IF i > Len(msgs) THEN monthly
    ELSE MonthlyScan(msgs, i + 1, MonthlyStep(monthly, msgs[i], msgs[i - 1]))

MeanOfEachMonth(monthly) ==
    [month \in DOMAIN monthly |-> MeanOfEach(monthly[month])]

get_monthly_response_times(msgs) == MeanOfEachMonth(MonthlyScan(msgs, 2, EmptyDict))

(***************************************************************************)
(* MetricsCalculator: construction and tallies                             *)
(***************************************************************************)
\* `[m for m in messages if m.message_type == MessageType.TEXT]`
TextOnly(msgs) == SelectSeq(msgs, LAMBDA m : m.message_type = "TEXT")

\* Keys, taking the labels for the senders
Keys_Labels(items) == [i \in 1..Len(items) |-> items[i].value]

\* `list(participant_mapping.keys())`; a dict is the list of its items in
\* insertion order where the order or the keys matter
Keys(items) == [i \in 1..Len(items) |-> items[i].key]

\* the range of a list
Range(seq) == {seq[i] : i \in 1..Len(seq)}

\* MetricsCalculator.__init__: the fields other than self.messages, which
\* is the list `messages` itself
MetricsCalculator(msgs, participant_mapping) ==
    [participant_mapping |-> participant_mapping,
     participants        |-> Keys(participant_mapping),
     text_messages       |-> TextOnly(msgs)]

RECURSIVE TallyFrom(_, _)
\* `counts[key] += amount` for each item, on a defaultdict(int)
TallyFrom(items, counts) ==
    IF items = <<>> THEN counts
    ELSE TallyFrom(Tail(items), DictAdd(counts, Head(items).key, Head(items).amount))

Tally(items) == TallyFrom(items, EmptyDict)

\* one per entry, keyed by sender
OnePerSender(msgs) == [i \in 1..Len(msgs) |-> [key |-> msgs[i].sender, amount |-> 1]]

get_message_counts(msgs) == Tally(OnePerSender(msgs))

get_text_message_counts(self) == Tally(OnePerSender(self.text_messages))

RECURSIVE SumOf(_)
\* sum() of a list of int
SumOf(ns) == IF ns = <<>> THEN 0 ELSE Head(ns) + SumOf(Tail(ns))

\* sum(counts.values())
SumValues(counts, keys) == SumOf([i \in 1..Len(keys) |-> counts[keys[i]]])

\* some list of the elements of a finite set, each once
RECURSIVE ListOf(_)
ListOf(set) ==
    IF set = {} THEN <<>>
    ELSE <<CHOOSE x \in set : TRUE>> \o ListOf(set \ {CHOOSE x \in set : TRUE})

\* counts.get(p, 0)
GetOr(d, k, default) == IF k \in DOMAIN d THEN d[k] ELSE default

\* "(counts.get(p, 0) / total) * 100"
Share(counts, p, total) == f_mul(Float(GetOr(counts, p, 0), total), 100)

\* the two returns of get_message_ratio
RatioOf(participants, counts, total) ==
    IF total = 0 THEN [p \in Range(participants) |-> Float(0, 1)]
    ELSE [p \in Range(participants) |-> Share(counts, p, total)]

RatioFrom(participants, counts) ==
    RatioOf(participants, counts, SumValues(counts, ListOf(DOMAIN counts)))

get_message_ratio(msgs, self) == RatioFrom(self.participants, get_message_counts(msgs))

(***************************************************************************)
(* MetricsCalculator: words, characters, emojis, links                     *)
(***************************************************************************)
\* len(content.split()): the number of maximal runs without whitespace
WordCount(s) ==
    Cardinality({i \in 1..Len(s) : ~IsSpace(s[i]) /\ (i = 1 \/ IsSpace(s[i - 1]))})

get_word_counts(self) ==
    Tally([i \in 1..Len(self.text_messages) |->
             [key |-> self.text_messages[i].sender,
              amount |-> WordCount(self.text_messages[i].content)]])

get_character_counts(self) ==
    Tally([i \in 1..Len(self.text_messages) |->
             [key |-> self.text_messages[i].sender,
              amount |-> Len(self.text_messages[i].content)]])

\* the characters of the model that match \w
WordChars == {LowerCase[i] : i \in 1..26} \cup UpperCaseLetters \cup DigitChars \cup {"_"}

IsWordChar(c) == c \in WordChars

\* the end of the run of word characters that starts at p
WordEnd(s, p) ==
    CHOOSE e \in p..Len(s) :
        /\ \A j \in p..e : IsWordChar(s[j])
        /\ (e = Len(s) \/ ~IsWordChar(s[e + 1]))

\* set(re.findall(r'\b\w+\b', s))
WordsOf(s) ==
    {SubSeq(s, p, WordEnd(s, p)) :
        p \in {q \in 1..Len(s) : IsWordChar(s[q]) /\ (q = 1 \/ ~IsWordChar(s[q - 1]))}}

\* `words_by_sender[msg.sender].update(words)` for every text entry
WordsBySender(texts, sender) ==
    UNION {WordsOf(lower(texts[i].content)) : i \in {j \in 1..Len(texts) : texts[j].sender = sender}}

SendersOf(msgs) == {msgs[i].sender : i \in 1..Len(msgs)}

get_unique_words(self) ==
    [sender \in SendersOf(self.text_messages) |->
        Cardinality(WordsBySender(self.text_messages, sender))]

\* AverageLength, a sender without words counting as one word
AverageLength_WordDefaultOne(word_counts, msg_counts, sender) ==
    Float(GetOr(word_counts, sender, 1), GetOr(msg_counts, sender, 1))

\* "word_counts.get(sender, 0) / msg_counts.get(sender, 1)"
AverageLength(word_counts, msg_counts, sender) ==
    Float(GetOr(word_counts, sender, 0), GetOr(msg_counts, sender, 1))

AverageLengthOfEach(participants, word_counts, msg_counts) ==
    [sender \in Range(participants) |-> AverageLength(word_counts, msg_counts, sender)]

get_average_message_length(self) ==
    AverageLengthOfEach(self.participants, get_word_counts(self),
                        get_text_message_counts(self))

\* two characters of the ranges of self.emoji_pattern: U+1F600 and U+2764
EmojiChars == {"GRIN", "HEART"}

\* the characters of all matches of self.emoji_pattern, in order
EmojisOf(s) == SelectSeq(s, LAMBDA c : c \in EmojiChars)

get_emoji_counts(self) ==
    Tally([i \in 1..Len(self.text_messages) |->
             [key |-> self.text_messages[i].sender,
              amount |-> Len(EmojisOf(self.text_messages[i].content))]])

S_http == <<"h","t","t","p",":","/","/">>

S_https == <<"h","t","t","p","s",":","/","/">>

\* does `prefix` followed by a character that is not whitespace start at p
UrlAt(s, p, prefix) ==
    /\ p + Len(prefix) <= Len(s)
    /\ SubSeq(s, p, p + Len(prefix) - 1) = prefix
    /\ ~IsSpace(s[p + Len(prefix)])

\* the start of the run without whitespace that holds position p
TokenStart(s, p) ==
    CHOOSE b \in 1..p :
        /\ \A j \in b..p : ~IsSpace(s[j])
        /\ (b = 1 \/ IsSpace(s[b - 1]))

\* len(url_pattern.findall(s)) for r'https?://\S+': a match runs to the end
\* of its run without whitespace, so each run holds at most one
LinkCount(s) ==
    Cardinality({TokenStart(s, p) :
        p \in {q \in 1..Len(s) : UrlAt(s, q, S_http) \/ UrlAt(s, q, S_https)}})

get_link_counts(self) ==
    Tally([i \in 1..Len(self.text_messages) |->
             [key |-> self.text_messages[i].sender,
              amount |-> LinkCount(self.text_messages[i].content)]])


(***************************************************************************)
(* MetricsCalculator: media, calls, time buckets, summaries                *)
(***************************************************************************)
\* the number of entries of a sender that have a kind
CountOfKind(msgs, sender, type) ==
    Cardinality({i \in 1..Len(msgs) : msgs[i].sender = sender /\ msgs[i].message_type = type})

media_types ==
    [images |-> "IMAGE", videos |-> "VIDEO", audio |-> "AUDIO",
     stickers |-> "STICKER", gifs |-> "GIF", documents |-> "DOCUMENT"]

\* the dict built for the participants, then `counts[msg.sender][name] += 1`
\* for the entries whose sender is in it
CountsByKind(msgs, participants, types) ==
    [sender \in Range(participants) |->
        [name \in DOMAIN types |-> CountOfKind(msgs, sender, types[name])]]

get_media_counts(msgs, self) == CountsByKind(msgs, self.participants, media_types)

call_types ==
    [video_calls |-> "VIDEO_CALL", voice_calls |-> "VOICE_CALL",
     missed_video |-> "MISSED_VIDEO_CALL", missed_voice |-> "MISSED_VOICE_CALL"]

get_call_counts(msgs, self) == CountsByKind(msgs, self.participants, call_types)

\* "if msg.call_duration_seconds": neither None nor 0
HasDuration(msg) ==
    msg.call_duration_seconds # None /\ msg.call_duration_seconds[1] # 0

WithDuration(msgs) == SelectSeq(msgs, HasDuration)

\* "durations[msg.sender] += msg.call_duration_seconds"
DurationItems(calls) ==
    [i \in 1..Len(calls) |->
        [key |-> calls[i].sender, amount |-> calls[i].call_duration_seconds[1]]]

\* Minutes, with a started minute counted as a whole one
Minutes_RoundedUp(durations) ==
    [sender \in DOMAIN durations |-> (durations[sender] + 59) \div 60]

\* "{sender: dur // 60 for sender, dur in durations.items()}"
Minutes(durations) == [sender \in DOMAIN durations |-> durations[sender] \div 60]

get_total_call_duration(msgs) == Minutes(Tally(DurationItems(WithDuration(msgs))))

\* datetime.weekday(): Monday is 0
weekday(dt) == (toordinal(dt) + 6) % 7

\* get_hourly_heatmap, leaving out the entries that are neither text nor
\* media nor a call
get_hourly_heatmap_WithoutDeleted(msgs) ==
    [dow \in 0..6 |-> [hour \in 0..23 |->
        Cardinality({i \in 1..Len(msgs) :
            /\ weekday(msgs[i].timestamp) = dow /\ msgs[i].timestamp.hour = hour
            /\ msgs[i].message_type \notin {"DELETED", "SYSTEM"}})]]

\* "heatmap[dow, hour] += 1" for every entry, from np.zeros((7, 24))
get_hourly_heatmap(msgs) ==
    [dow \in 0..6 |-> [hour \in 0..23 |->
        Cardinality({i \in 1..Len(msgs) :
            weekday(msgs[i].timestamp) = dow /\ msgs[i].timestamp.hour = hour})]]

get_hourly_distribution(msgs) ==
    Tally([i \in 1..Len(msgs) |-> [key |-> msgs[i].timestamp.hour, amount |-> 1]])

get_daily_distribution(msgs) ==
    Tally([i \in 1..Len(msgs) |-> [key |-> weekday(msgs[i].timestamp), amount |-> 1]])

\* the entries of a month
OfMonth(msgs, month_key) ==
    SelectSeq(msgs, LAMBDA m : strftime_Ym(m.timestamp) = month_key)

MonthsOf(msgs) == {strftime_Ym(msgs[i].timestamp) : i \in 1..Len(msgs)}

get_monthly_message_counts(msgs) ==
    [month_key \in MonthsOf(msgs) |-> Tally(OnePerSender(OfMonth(msgs, month_key)))]

OnePerMonth(msgs) ==
    [i \in 1..Len(msgs) |-> [key |-> strftime_Ym(msgs[i].timestamp), amount |-> 1]]

get_monthly_totals(msgs) == Tally(OnePerMonth(msgs))

affection_words ==
    << <<"l","o","v","e">>,
       <<"m","i","s","s">>,
       <<"b","a","b","y">>,
       <<"b","a","b","e">>,
       <<"c","u","t","i","e">>,
       <<"c","u","t","u">>,
       <<"s","w","e","e","t","h","e","a","r","t">>,
       <<"d","a","r","l","i","n","g">>,
       <<"d","e","a","r">>,
       <<"h","o","n","e","y">>,
       <<"j","a","a","n">>,
       <<"j","a","a","n","u">>,
       <<"p","r","i","n","c","e","s","s">>,
       <<"p","r","i","n","c","e">>,
       <<"b","e","a","u","t","i","f","u","l">>,
       <<"h","a","n","d","s","o","m","e">>,
       <<"g","o","r","g","e","o","u","s">>,
       <<"p","y","a","a","r">>,
       <<"p","y","a","r">>,
       <<"d","i","l">>,
       <<"h","e","a","r","t">>,
       <<"h","u","g">>,
       <<"k","i","s","s">>,
       <<"c","a","r","e">>,
       <<"s","p","e","c","i","a","l">>,
       <<"b","e","s","t">>,
       <<"f","a","v","o","r","i","t","e">>,
       <<"a","d","o","r","e">>,
       <<"p","r","e","c","i","o","u","s">>,
       <<"a","m","a","z","i","n","g">>,
       <<"w","o","n","d","e","r","f","u","l">>,
       <<"p","e","r","f","e","c","t">> >>

RECURSIVE count(_, _)
\* str.count(sub), sub non-empty: occurrences that do not overlap
count(s, sub) ==
    IF Len(s) < Len(sub) THEN 0
    ELSE IF SubSeq(s, 1, Len(sub)) = sub
         THEN 1 + count(SubSeq(s, Len(sub) + 1, Len(s)), sub)
         ELSE count(Tail(s), sub)

\* `for word in affection_words: counts[month_key] += content_lower.count(word)`
AffectionOf(content_lower) ==
    SumOf([w \in 1..Len(affection_words) |-> count(content_lower, affection_words[w])])

get_affection_words_timeline(self) ==
    Tally([i \in 1..Len(self.text_messages) |->
             [key |-> strftime_Ym(self.text_messages[i].timestamp),
              amount |-> AffectionOf(lower(self.text_messages[i].content))]])

IsCall(m) == \E name \in DOMAIN call_types : m.message_type = call_types[name]

get_call_frequency_timeline(msgs) == Tally(OnePerMonth(SelectSeq(msgs, IsCall)))

\* get_date_range, as the earliest and the latest of the timestamps
get_date_range_MinMax(msgs) ==
    IF msgs = <<>> THEN <<None, None>>
    ELSE LET stamps == {msgs[i].timestamp : i \in 1..Len(msgs)}
         IN  <<CHOOSE t \in stamps : \A u \in stamps : ~dt_lt(u, t),
               CHOOSE t \in stamps : \A u \in stamps : ~dt_lt(t, u)>>

\* a tuple of two values
get_date_range(msgs) ==
    IF msgs = <<>> THEN <<None, None>>
    ELSE <<msgs[1].timestamp, msgs[Len(msgs)].timestamp>>

\* "(end.date() - start.date()).days + 1"
InclusiveDays(start, end) == toordinal(end) - toordinal(start) + 1

\* TotalDaysOf, counting one day when there is no entry
TotalDaysOf_AtLeastOne(range) ==
    IF range[1] # None /\ range[2] # None THEN InclusiveDays(range[1], range[2]) ELSE 1

\* "if start and end": a datetime is always true, None never
TotalDaysOf(range) ==
    IF range[1] # None /\ range[2] # None THEN InclusiveDays(range[1], range[2]) ELSE 0

get_total_days(msgs) == TotalDaysOf(get_date_range(msgs))

\* get_active_days, counting the entries instead of their dates
get_active_days_PerEntry(msgs) == Len(msgs)

get_active_days(msgs) == Cardinality({date(msgs[i].timestamp) : i \in 1..Len(msgs)})

get_edited_message_counts(msgs) ==
    Tally(OnePerSender(SelectSeq(msgs, LAMBDA m : m.is_edited)))

RECURSIVE EmojiTally(_, _)
\* `emoji_counts[msg.sender][emoji] += 1`, the inner dict kept as the list
\* of its items in insertion order
EmojiTally(emojis, items) ==
    IF emojis = <<>> THEN items
    ELSE EmojiTally(Tail(emojis),
            IF \E i \in 1..Len(items) : items[i][1] = Head(emojis)
            THEN [i \in 1..Len(items) |->
                    IF items[i][1] = Head(emojis)
                    THEN <<items[i][1], items[i][2] + 1>> ELSE items[i]]
            ELSE Append(items, <<Head(emojis), 1>>))

RECURSIVE Concat(_)
Concat(seqs) == IF seqs = <<>> THEN <<>> ELSE Head(seqs) \o Concat(Tail(seqs))

\* the emojis of the text entries of a sender, in order
EmojisBy(texts, sender) ==
    Concat([i \in 1..Len(texts) |->
              IF texts[i].sender = sender THEN EmojisOf(texts[i].content) ELSE <<>>])

\* the place of an item in a list sorted by falling count: after the items
\* that count as much or more (sorted() is stable)
PlaceOf(sorted, item) ==
    Cardinality({i \in 1..Len(sorted) : sorted[i][2] >= item[2]})

InsertAt(sorted, k, item) ==
    SubSeq(sorted, 1, k) \o <<item>> \o SubSeq(sorted, k + 1, Len(sorted))

RECURSIVE SortedByCount(_, _)
\* sorted(emojis.items(), key=lambda x: -x[1])
SortedByCount(items, sorted) ==
    IF items = <<>> THEN sorted
    ELSE SortedByCount(Tail(items), InsertAt(sorted, PlaceOf(sorted, Head(items)), Head(items)))

\* [:top_n]
FirstN(seq, top_n) == SubSeq(seq, 1, IF Len(seq) < top_n THEN Len(seq) ELSE top_n)

get_most_used_emojis(self, top_n) ==
    [sender \in {s \in SendersOf(self.text_messages) : EmojisBy(self.text_messages, s) # <<>>} |->
        FirstN(SortedByCount(EmojiTally(EmojisBy(self.text_messages, sender), <<>>), <<>>), top_n)]

\* str(d) for a datetime or None
S_None == <<"N","o","n","e">>

str(d) ==
    IF d = None THEN S_None
    ELSE Pad4(d.year) \o <<"-">> \o Pad2(d.month) \o <<"-">> \o Pad2(d.day) \o <<" ">>
         \o Pad2(d.hour) \o <<":">> \o Pad2(d.minute) \o <<":">> \o Pad2(d.second)

StrOfBoth(range) == <<str(range[1]), str(range[2])>>

get_all_metrics(msgs, self) ==
    [message_counts           |-> get_message_counts(msgs),
     message_ratio            |-> get_message_ratio(msgs, self),
     double_messages          |-> get_double_messages(msgs),
     conversation_initiations |-> get_conversation_initiations(msgs, 6),
     average_response_time    |-> get_average_response_time(msgs),
     median_response_time     |-> get_median_response_time(msgs),
     immediate_replies        |-> get_immediate_replies_percentage(msgs, Float(1, 1)),
     first_response_time      |-> get_first_response_time(msgs),
     word_counts              |-> get_word_counts(self),
     character_counts         |-> get_character_counts(self),
     unique_words             |-> get_unique_words(self),
     average_message_length   |-> get_average_message_length(self),
     emoji_counts             |-> get_emoji_counts(self),
     media_counts             |-> get_media_counts(msgs, self),
     link_counts              |-> get_link_counts(self),
     call_counts              |-> get_call_counts(msgs, self),
     total_call_duration      |-> get_total_call_duration(msgs),
     hourly_distribution      |-> get_hourly_distribution(msgs),
     daily_distribution       |-> get_daily_distribution(msgs),
     monthly_totals           |-> get_monthly_totals(msgs),
     date_range               |-> StrOfBoth(get_date_range(msgs)),
     total_days               |-> get_total_days(msgs),
     active_days              |-> get_active_days(msgs)]

(***************************************************************************)
(* VideoCallAnalyzer                                                       *)
(***************************************************************************)
OfKind(msgs, type) == SelectSeq(msgs, LAMBDA m : m.message_type = type)

\* VideoCallAnalyzer.__init__
VideoCallAnalyzer(msgs, participant_mapping) ==
    [messages            |-> msgs,
     participant_mapping |-> participant_mapping,
     participants        |-> Keys(participant_mapping),
     video_calls         |-> OfKind(msgs, "VIDEO_CALL"),
     voice_calls         |-> OfKind(msgs, "VOICE_CALL"),
     missed_video        |-> OfKind(msgs, "MISSED_VIDEO_CALL"),
     missed_voice        |-> OfKind(msgs, "MISSED_VOICE_CALL"),
     all_calls           |-> OfKind(msgs, "VIDEO_CALL") \o OfKind(msgs, "VOICE_CALL")
                             \o OfKind(msgs, "MISSED_VIDEO_CALL")
                             \o OfKind(msgs, "MISSED_VOICE_CALL")]

\* Durations, a call without a duration counting as one of 0 seconds
Durations_AbsentAsZero(calls) ==
    [i \in 1..Len(calls) |->
        IF calls[i].call_duration_seconds = None THEN 0
        ELSE calls[i].call_duration_seconds[1]]

\* "[c.call_duration_seconds for c in calls if c.call_duration_seconds]"
Durations(calls) ==
    [i \in 1..Len(WithDuration(calls)) |-> WithDuration(calls)[i].call_duration_seconds[1]]

\* a list of int as a list of float
Floats(ns) == [i \in 1..Len(ns) |-> Float(ns[i], 1)]

\* max() of a non-empty list of int
max(ns) == CHOOSE n \in Range(ns) : \A k \in Range(ns) : k <= n

\* "max(a, 1)"
AtLeastOne(n) == IF n < 1 THEN 1 ELSE n

\* "np.mean(durations) / 60 if durations else 0", and the like
MeanMinutes(durations) ==
    IF durations # <<>> THEN f_div(np_mean(Floats(durations)), 60) ELSE Float(0, 1)

MaxMinutes(durations) ==
    IF durations # <<>> THEN Float(max(durations), 60) ELSE Float(0, 1)

MedianMinutes(durations) ==
    IF durations # <<>> THEN f_div(np_median(Floats(durations)), 60) ELSE Float(0, 1)

\* the dict get_call_summary returns, given the two lists of durations
Summary(self, video_durations, voice_durations) ==
    [total_video_calls         |-> Len(self.video_calls),
     total_voice_calls         |-> Len(self.voice_calls),
     total_calls               |-> Len(self.video_calls) + Len(self.voice_calls),
     missed_video_calls        |-> Len(self.missed_video),
     missed_voice_calls        |-> Len(self.missed_voice),
     total_missed              |-> Len(self.missed_video) + Len(self.missed_voice),
     answer_rate               |->
         f_mul(Float(Len(self.video_calls) + Len(self.voice_calls),
                     AtLeastOne(Len(self.video_calls) + Len(self.voice_calls)
                                + Len(self.missed_video) + Len(self.missed_voice))),
               100),
     total_video_time_hours    |-> Float(SumOf(video_durations), 3600),
     total_voice_time_hours    |-> Float(SumOf(voice_durations), 3600),
     total_call_time_hours     |-> Float(SumOf(video_durations) + SumOf(voice_durations), 3600),
     avg_video_duration_min    |-> MeanMinutes(video_durations),
     avg_voice_duration_min    |-> MeanMinutes(voice_durations),
     longest_video_call_min    |-> MaxMinutes(video_durations),
     longest_voice_call_min    |-> MaxMinutes(voice_durations),
     median_video_duration_min |-> MedianMinutes(video_durations)]

get_call_summary(self) ==
    Summary(self, Durations(self.video_calls), Durations(self.voice_calls))

\* the calls of a list that a sender made
CallsBy(calls, sender) == SelectSeq(calls, LAMBDA c : c.sender = sender)

\* stats[sender] at the return of get_calls_by_person, given the durations
\* of the video calls and of the voice calls of the sender
StatsOf(self, sender, video_durations, voice_durations) ==
    [video_calls           |-> Len(CallsBy(self.video_calls, sender)),
     voice_calls           |-> Len(CallsBy(self.voice_calls, sender)),
     missed_video          |-> Len(CallsBy(self.missed_video, sender)),
     missed_voice          |-> Len(CallsBy(self.missed_voice, sender)),
     total_video_time      |-> SumOf(video_durations),
     total_voice_time      |-> SumOf(voice_durations),
     call_durations        |-> video_durations \o voice_durations,
     avg_call_duration_min |-> MeanMinutes(video_durations \o voice_durations),
     total_calls           |-> Len(CallsBy(self.video_calls, sender))
                               + Len(CallsBy(self.voice_calls, sender)),
     total_missed          |-> Len(CallsBy(self.missed_video, sender))
                               + Len(CallsBy(self.missed_voice, sender))]

get_calls_by_person(self) ==
    [sender \in Range(self.participants) |->
        StatsOf(self, sender, Durations(CallsBy(self.video_calls, sender)),
                Durations(CallsBy(self.voice_calls, sender)))]

(***************************************************************************)
(* The engine over a given list of entries                                 *)
(***************************************************************************)
SenderA == <<"A">>

SenderB == <<"B">>

Senders == {SenderA, SenderB}

\* 18:00:00, then 5:59:59 and 6:00:00 later
Evening == datetime(2023, 2, 1, 18, 0, 0)

LastSecond == datetime(2023, 2, 1, 23, 59, 59)

Midnight == datetime(2023, 2, 2, 0, 0, 0)

Stamps == {Evening, LastSecond, Midnight}

EngineMessages ==
    {Message(ts, sender, <<"o","k">>, "TEXT", <<>>, None, FALSE) :
        ts \in Stamps, sender \in Senders}

\* the longest list of entries handed to the engine
MaxMessages == 5

\* the values of gap_hours the engine is called with
GapHours == {1, 6}

InitMetrics ==
    /\ pc = "engine"
    /\ lines = <<>>
    /\ messages \in UNION {[1..n -> EngineMessages] : n \in 0..MaxMessages}
    /\ current_message = None
    /\ content = None
    /\ engine = None
    /\ frame = None
    /\ result = None
    /\ session_state = None
    /\ widgets = None
    /\ razorpay = None

GetDoubleMessages ==
    /\ pc = "engine"
    /\ result' = [call |-> "get_double_messages",
                  returned |-> get_double_messages(messages)]
    /\ UNCHANGED <<pc, lines, messages, current_message, content, engine, frame, session_state, widgets, razorpay>>

GetConversationInitiations(gap_hours) ==
    /\ pc = "engine"
    /\ result' = [call |-> "get_conversation_initiations",
                  gap_hours |-> gap_hours,
                  returned |-> get_conversation_initiations(messages, gap_hours)]
    /\ UNCHANGED <<pc, lines, messages, current_message, content, engine, frame, session_state, widgets, razorpay>>

NextMetrics ==
    \/ GetDoubleMessages
    \/ \E gap_hours \in GapHours : GetConversationInitiations(gap_hours)

SpecMetrics == InitMetrics /\ [][NextMetrics]_vars

(***************************************************************************)
(* The engine's timing functions over entries a day apart                  *)
(***************************************************************************)
\* 09:00:00, then 1, 1439, 1440 and 1441 minutes later
Morning == datetime(2023, 2, 1, 9, 0, 0)

MinuteLater == datetime(2023, 2, 1, 9, 1, 0)

AlmostDayLater == datetime(2023, 2, 2, 8, 59, 0)

DayLater == datetime(2023, 2, 2, 9, 0, 0)

OverDayLater == datetime(2023, 2, 2, 9, 1, 0)

TimedStamps == {Morning, MinuteLater, AlmostDayLater, DayLater, OverDayLater}

TimedMessages ==
    {Message(ts, sender, <<"o","k">>, "TEXT", <<>>, None, FALSE) :
        ts \in TimedStamps, sender \in Senders}

\* the longest list of entries handed to the timing functions
MaxTimed == 3

\* a mapping that names both senders
BothMapped ==
    << [key |-> SenderA, value |-> <<"A","n","n">>],
       [key |-> SenderB, value |-> <<"B","o","b">>] >>

\* the values of threshold_minutes the engine is called with
Thresholds == {Float(1, 1), Float(1439, 1)}

InitTiming ==
    /\ pc = "engine"
    /\ lines = <<>>
    /\ messages \in UNION {[1..n -> TimedMessages] : n \in 0..MaxTimed}
    /\ current_message = None
    /\ content = None
    /\ engine = MetricsCalculator(messages, BothMapped)
    /\ frame = None
    /\ result = None
    /\ session_state = None
    /\ widgets = None
    /\ razorpay = None

\* a method of the engine is called and returns a value to its caller
Returns(call, returned) ==
    /\ pc = "engine"
    /\ pc' = "returned"
    /\ result' = [call |-> call, returned |-> returned]
    /\ UNCHANGED <<lines, messages, current_message, content, engine, frame, session_state, widgets, razorpay>>

\* the caller has taken the value and is ready for its next call
NextCall ==
    /\ pc = "returned"
    /\ pc' = "engine"
    /\ result' = None
    /\ UNCHANGED <<lines, messages, current_message, content, engine, frame, session_state, widgets, razorpay>>

GetResponseTimes == Returns("get_response_times", get_response_times(messages))

GetAverageResponseTime ==
    Returns("get_average_response_time", get_average_response_time(messages))

GetMedianResponseTime ==
    Returns("get_median_response_time", get_median_response_time(messages))

GetImmediateRepliesPercentage(threshold_minutes) ==
    /\ pc = "engine"
    /\ pc' = "returned"
    /\ result' = [call |-> "get_immediate_replies_percentage",
                  threshold_minutes |-> threshold_minutes,
                  returned |-> get_immediate_replies_percentage(messages, threshold_minutes)]
    /\ UNCHANGED <<lines, messages, current_message, content, engine, frame, session_state, widgets, razorpay>>

GetFirstResponseTime ==
    Returns("get_first_response_time", get_first_response_time(messages))

GetMonthlyResponseTimes ==
    Returns("get_monthly_response_times", get_monthly_response_times(messages))

NextTiming ==
    \/ GetResponseTimes
    \/ GetAverageResponseTime
    \/ GetMedianResponseTime
    \/ \E threshold_minutes \in Thresholds : GetImmediateRepliesPercentage(threshold_minutes)
    \/ GetFirstResponseTime
    \/ GetMonthlyResponseTimes
    \/ NextCall

SpecTiming == InitTiming /\ [][NextTiming]_vars

(***************************************************************************)
(* The engine over entries of every kind, under several mappings           *)
(***************************************************************************)
\* [06/02/23, 9:00:00 AM] A: hi <grinning face> http://x.y love
EntryLine_text ==
    <<"[","0","6","/","0","2","/","2","3",","," ","9",":","0","0",":","0","0"," ","A","M","]"," ","A",":"," ","h","i"," ","GRIN"," ","h","t","t","p",":","/","/","x",".","y"," ","l","o","v","e","\n">>

\* [06/03/23, 9:00:00 AM] B: miss you <heart><heart> <This message was edited>
EntryLine_edited ==
    <<"[","0","6","/","0","3","/","2","3",","," ","9",":","0","0",":","0","0"," ","A","M","]"," ","B",":"," ","m","i","s","s"," ","y","o","u"," ","HEART","HEART"," ","<","T","h","i","s"," ","m","e","s","s","a","g","e"," ","w","a","s"," ","e","d","i","t","e","d",">","\n">>

\* [06/02/23, 11:30:00 PM] A: <LRM>image omitted
EntryLine_image ==
    <<"[","0","6","/","0","2","/","2","3",","," ","1","1",":","3","0",":","0","0"," ","P","M","]"," ","A",":"," ","LRM","i","m","a","g","e"," ","o","m","i","t","t","e","d","\n">>

\* [07/02/23, 12:05:00 AM] A: <LRM>Video call, 1 min 30 sec
EntryLine_video_call ==
    <<"[","0","7","/","0","2","/","2","3",","," ","1","2",":","0","5",":","0","0"," ","A","M","]"," ","A",":"," ","LRM","V","i","d","e","o"," ","c","a","l","l",","," ","1"," ","m","i","n"," ","3","0"," ","s","e","c","\n">>

\* [12/02/23, 9:00:00 AM] B: <LRM>Video call          (answered, no duration)
EntryLine_video_call_bare ==
    <<"[","1","2","/","0","2","/","2","3",","," ","9",":","0","0",":","0","0"," ","A","M","]"," ","B",":"," ","LRM","V","i","d","e","o"," ","c","a","l","l","\n">>

\* [12/02/23, 9:02:00 AM] A: <LRM>Voice call, 2 min
EntryLine_voice_call ==
    <<"[","1","2","/","0","2","/","2","3",","," ","9",":","0","2",":","0","0"," ","A","M","]"," ","A",":"," ","LRM","V","o","i","c","e"," ","c","a","l","l",","," ","2"," ","m","i","n","\n">>

\* [12/02/23, 9:03:00 AM] B: <LRM>Missed voice call
EntryLine_missed ==
    <<"[","1","2","/","0","2","/","2","3",","," ","9",":","0","3",":","0","0"," ","A","M","]"," ","B",":"," ","LRM","M","i","s","s","e","d"," ","v","o","i","c","e"," ","c","a","l","l","\n">>

\* [12/02/23, 10:00:00 AM] A: This message was deleted
EntryLine_deleted ==
    <<"[","1","2","/","0","2","/","2","3",","," ","1","0",":","0","0",":","0","0"," ","A","M","]"," ","A",":"," ","T","h","i","s"," ","m","e","s","s","a","g","e"," ","w","a","s"," ","d","e","l","e","t","e","d","\n">>

EntryLines_Engine ==
    {EntryLine_text,
     EntryLine_edited,
     EntryLine_image,
     EntryLine_video_call,
     EntryLine_video_call_bare,
     EntryLine_voice_call,
     EntryLine_missed,
     EntryLine_deleted}

\* the entry parse_whatsapp_chat makes of a file of one line
EntryOf(raw) == ScanLine(raw).new

Entries_Engine == {EntryOf(raw) : raw \in EntryLines_Engine}

\* the longest list of entries handed to the engine
MaxEntries == 2

\* a sender that wrote nothing
SenderD == <<"D">>

\* the same senders as BothMapped under other labels
BothRelabelled ==
    << [key |-> SenderA, value |-> <<"M","e">>],
       [key |-> SenderB, value |-> <<"Y","o","u">>] >>

\* A and a sender that wrote nothing; B has no label
AbsentMapped ==
    << [key |-> SenderA, value |-> <<"A","n","n">>],
       [key |-> SenderD, value |-> <<"D","a","n">>] >>

NoneMapped == <<>>

Mappings == {BothMapped, BothRelabelled, AbsentMapped, NoneMapped}

InitEngine ==
    /\ pc = "engine"
    /\ lines = <<>>
    /\ messages \in UNION {[1..n -> Entries_Engine] : n \in 0..MaxEntries}
    /\ current_message = None
    /\ content = None
    /\ \E participant_mapping \in Mappings :
           engine = MetricsCalculator(messages, participant_mapping)
    /\ frame = None
    /\ result = None
    /\ session_state = None
    /\ widgets = None
    /\ razorpay = None

GetMessageCounts == Returns("get_message_counts", get_message_counts(messages))

GetTextMessageCounts == Returns("get_text_message_counts", get_text_message_counts(engine))

GetMessageRatio == Returns("get_message_ratio", get_message_ratio(messages, engine))

GetWordCounts == Returns("get_word_counts", get_word_counts(engine))

GetCharacterCounts == Returns("get_character_counts", get_character_counts(engine))

GetUniqueWords == Returns("get_unique_words", get_unique_words(engine))

GetAverageMessageLength == Returns("get_average_message_length", get_average_message_length(engine))

GetEmojiCounts == Returns("get_emoji_counts", get_emoji_counts(engine))

GetMostUsedEmojis == Returns("get_most_used_emojis", get_most_used_emojis(engine, 10))

GetMediaCounts == Returns("get_media_counts", get_media_counts(messages, engine))

GetLinkCounts == Returns("get_link_counts", get_link_counts(engine))

GetCallCounts == Returns("get_call_counts", get_call_counts(messages, engine))

GetTotalCallDuration == Returns("get_total_call_duration", get_total_call_duration(messages))

GetHourlyHeatmap == Returns("get_hourly_heatmap", get_hourly_heatmap(messages))

GetHourlyDistribution == Returns("get_hourly_distribution", get_hourly_distribution(messages))

GetDailyDistribution == Returns("get_daily_distribution", get_daily_distribution(messages))

GetMonthlyMessageCounts == Returns("get_monthly_message_counts", get_monthly_message_counts(messages))

GetMonthlyTotals == Returns("get_monthly_totals", get_monthly_totals(messages))

GetAffectionWordsTimeline == Returns("get_affection_words_timeline", get_affection_words_timeline(engine))

GetCallFrequencyTimeline == Returns("get_call_frequency_timeline", get_call_frequency_timeline(messages))

GetDateRange == Returns("get_date_range", get_date_range(messages))

GetTotalDays == Returns("get_total_days", get_total_days(messages))

GetActiveDays == Returns("get_active_days", get_active_days(messages))

GetEditedMessageCounts == Returns("get_edited_message_counts", get_edited_message_counts(messages))

GetAllMetrics == Returns("get_all_metrics", get_all_metrics(messages, engine))

NextEngine ==
    \/ GetDoubleMessages
    \/ GetResponseTimes
    \/ GetAverageResponseTime
    \/ GetMedianResponseTime
    \/ GetFirstResponseTime
    \/ GetMonthlyResponseTimes
    \/ \E gap_hours \in GapHours : GetConversationInitiations(gap_hours)
    \/ \E threshold_minutes \in Thresholds : GetImmediateRepliesPercentage(threshold_minutes)
    \/ GetMessageCounts
    \/ GetTextMessageCounts
    \/ GetMessageRatio
    \/ GetWordCounts
    \/ GetCharacterCounts
    \/ GetUniqueWords
    \/ GetAverageMessageLength
    \/ GetEmojiCounts
    \/ GetMostUsedEmojis
    \/ GetMediaCounts
    \/ GetLinkCounts
    \/ GetCallCounts
    \/ GetTotalCallDuration
    \/ GetHourlyHeatmap
    \/ GetHourlyDistribution
    \/ GetDailyDistribution
    \/ GetMonthlyMessageCounts
    \/ GetMonthlyTotals
    \/ GetAffectionWordsTimeline
    \/ GetCallFrequencyTimeline
    \/ GetDateRange
    \/ GetTotalDays
    \/ GetActiveDays
    \/ GetEditedMessageCounts
    \/ GetAllMetrics
    \/ NextCall

SpecEngine == InitEngine /\ [][NextEngine]_vars

(***************************************************************************)
(* From the transcript to the metrics: parse_whatsapp_chat, then the       *)
(* engine built over the entries it returned                               *)
(***************************************************************************)
\* a noise line, two lines whose stamp does not parse, a line of the system
\* pattern, a line with no stamp, and one line that yields an entry
TranscriptLines ==
    {Line_noise, Line_badts, Line_nospace, Line_sys, Line_world, Line_hello}

\* the longest transcript read before the engine is built
MaxTranscript == 2

ReadTranscriptLine(raw) ==
    /\ pc = "reading"
    /\ Len(lines) < MaxTranscript
    /\ LoopBody(raw, Scanned[raw])

\* MetricsCalculator(messages, participant_mapping) on the list returned
Construct(participant_mapping) ==
    /\ pc = "done"
    /\ engine' = MetricsCalculator(result, participant_mapping)
    /\ pc' = "engine"
    /\ result' = None
    /\ UNCHANGED <<lines, messages, current_message, content, frame, session_state, widgets, razorpay>>

NextPipeline ==
    \/ \E raw \in TranscriptLines : ReadTranscriptLine(raw)
    \/ EndOfFile
    \/ \E participant_mapping \in Mappings : Construct(participant_mapping)
    \/ NextEngine

SpecPipeline == InitParse /\ [][NextPipeline]_vars

(***************************************************************************)
(* Two callers of one engine, their calls interleaved entry by entry       *)
(***************************************************************************)
Callers == {1, 2}

\* the entries of the list the callers share
SharedEntries == {EntryOf(EntryLine_text), EntryOf(EntryLine_video_call)}

\* the longest list the callers share
MaxShared == 1

\* the methods that loop over self.text_messages
TextCalls ==
    {"get_text_message_counts",
     "get_word_counts",
     "get_character_counts",
     "get_unique_words",
     "get_average_message_length",
     "get_emoji_counts",
     "get_most_used_emojis",
     "get_link_counts",
     "get_affection_words_timeline"}

\* the methods that loop over self.messages
MessageCalls ==
    {"get_double_messages",
     "get_conversation_initiations",
     "get_response_times",
     "get_average_response_time",
     "get_median_response_time",
     "get_immediate_replies_percentage",
     "get_first_response_time",
     "get_monthly_response_times",
     "get_message_counts",
     "get_message_ratio",
     "get_media_counts",
     "get_call_counts",
     "get_total_call_duration",
     "get_hourly_heatmap",
     "get_hourly_distribution",
     "get_daily_distribution",
     "get_monthly_message_counts",
     "get_monthly_totals",
     "get_call_frequency_timeline",
     "get_date_range",
     "get_total_days",
     "get_active_days",
     "get_edited_message_counts",
     "get_all_metrics"}

Calls == TextCalls \cup MessageCalls

\* the method `call` of the engine `self` over the entries msgs, with the
\* default values of its parameters
Apply(call, msgs, self) ==
    CASE call = "get_double_messages" -> get_double_messages(msgs)
      [] call = "get_conversation_initiations" -> get_conversation_initiations(msgs, 6)
      [] call = "get_response_times" -> get_response_times(msgs)
      [] call = "get_average_response_time" -> get_average_response_time(msgs)
      [] call = "get_median_response_time" -> get_median_response_time(msgs)
      [] call = "get_immediate_replies_percentage" -> get_immediate_replies_percentage(msgs, Float(1, 1))
      [] call = "get_first_response_time" -> get_first_response_time(msgs)
      [] call = "get_monthly_response_times" -> get_monthly_response_times(msgs)
      [] call = "get_message_counts" -> get_message_counts(msgs)
      [] call = "get_text_message_counts" -> get_text_message_counts(self)
      [] call = "get_message_ratio" -> get_message_ratio(msgs, self)
      [] call = "get_word_counts" -> get_word_counts(self)
      [] call = "get_character_counts" -> get_character_counts(self)
      [] call = "get_unique_words" -> get_unique_words(self)
      [] call = "get_average_message_length" -> get_average_message_length(self)
      [] call = "get_emoji_counts" -> get_emoji_counts(self)
      [] call = "get_most_used_emojis" -> get_most_used_emojis(self, 10)
      [] call = "get_media_counts" -> get_media_counts(msgs, self)
      [] call = "get_link_counts" -> get_link_counts(self)
      [] call = "get_call_counts" -> get_call_counts(msgs, self)
      [] call = "get_total_call_duration" -> get_total_call_duration(msgs)
      [] call = "get_hourly_heatmap" -> get_hourly_heatmap(msgs)
      [] call = "get_hourly_distribution" -> get_hourly_distribution(msgs)
      [] call = "get_daily_distribution" -> get_daily_distribution(msgs)
      [] call = "get_monthly_message_counts" -> get_monthly_message_counts(msgs)
      [] call = "get_monthly_totals" -> get_monthly_totals(msgs)
      [] call = "get_affection_words_timeline" -> get_affection_words_timeline(self)
      [] call = "get_call_frequency_timeline" -> get_call_frequency_timeline(msgs)
      [] call = "get_date_range" -> get_date_range(msgs)
      [] call = "get_total_days" -> get_total_days(msgs)
      [] call = "get_active_days" -> get_active_days(msgs)
      [] call = "get_edited_message_counts" -> get_edited_message_counts(msgs)
      [] call = "get_all_metrics" -> get_all_metrics(msgs, self)

\* the list a method loops over
Looped(call) == IF call \in TextCalls THEN engine.text_messages ELSE messages

\* the fields of the engine after a method returned, the method having
\* emptied self.text_messages
AfterCall_Consuming(self, call, returned) == [self EXCEPT !.text_messages = <<>>]

\* the fields of the engine after a method returned: no method assigns to
\* self or changes a list of self
AfterCall(self, call, returned) == self

\* the value a method returns that has read the entries `seen` in its loop
ReturnedOver(call, seen) ==
    IF call \in TextCalls
    THEN Apply(call, messages, [engine EXCEPT !.text_messages = seen])
    ELSE Apply(call, seen, engine)

InitConcurrent ==
    /\ pc = [c \in Callers |-> "idle"]
    /\ lines = <<>>
    /\ messages \in UNION {[1..n -> SharedEntries] : n \in 0..MaxShared}
    /\ current_message = None
    /\ content = None
    /\ engine = MetricsCalculator(messages, BothMapped)
    /\ frame = [c \in Callers |-> None]
    /\ result = [c \in Callers |-> None]
    /\ session_state = None
    /\ widgets = None
    /\ razorpay = None

\* caller c calls a method: its locals are set up
Enter(c, call) ==
    /\ pc[c] \in {"idle", "returned"}
    /\ pc' = [pc EXCEPT ![c] = "running"]
    /\ frame' = [frame EXCEPT ![c] = [call |-> call, seen |-> <<>>]]
    /\ result' = [result EXCEPT ![c] = None]
    /\ UNCHANGED <<lines, messages, current_message, content, engine, session_state, widgets, razorpay>>

\* one turn of the loop of the method caller c is in: the next entry is read
ReadEntry(c) ==
    /\ pc[c] = "running"
    /\ Len(frame[c].seen) < Len(Looped(frame[c].call))
    /\ frame' = [frame EXCEPT
                    ![c].seen = Append(@, Looped(frame[c].call)[Len(frame[c].seen) + 1])]
    /\ UNCHANGED <<pc, lines, messages, current_message, content, engine, result, session_state, widgets, razorpay>>

\* the loop is over and the method returns to caller c
Leave(c) ==
    /\ pc[c] = "running"
    /\ Len(frame[c].seen) >= Len(Looped(frame[c].call))
    /\ pc' = [pc EXCEPT ![c] = "returned"]
    /\ result' = [result EXCEPT ![c] =
                     [call |-> frame[c].call,
                      returned |-> ReturnedOver(frame[c].call, frame[c].seen)]]
    /\ engine' = AfterCall(engine, frame[c].call, result'[c].returned)
    /\ frame' = [frame EXCEPT ![c] = None]
    /\ UNCHANGED <<lines, messages, current_message, content, session_state, widgets, razorpay>>

NextConcurrent ==
    \/ \E c \in Callers, call \in Calls : Enter(c, call)
    \/ \E c \in Callers : ReadEntry(c)
    \/ \E c \in Callers : Leave(c)

SpecConcurrent == InitConcurrent /\ [][NextConcurrent]_vars

(***************************************************************************)
(* The call statistics of both analyzers over the same entries             *)
(***************************************************************************)
\* VideoCallAnalyzer(messages, participant_mapping).get_call_summary()
GetCallSummary ==
    Returns("get_call_summary",
            get_call_summary(VideoCallAnalyzer(messages, engine.participant_mapping)))

GetCallsByPerson ==
    Returns("get_calls_by_person",
            get_calls_by_person(VideoCallAnalyzer(messages, engine.participant_mapping)))

NextCalls ==
    \/ GetCallSummary
    \/ GetCallsByPerson
    \/ GetCallCounts
    \/ GetTotalCallDuration
    \/ GetCallFrequencyTimeline
    \/ NextCall

SpecCalls == InitEngine /\ [][NextCalls]_vars

(***************************************************************************)
(* parse_whatsapp_chat as a function of the whole file, for its callers    *)
(***************************************************************************)
\* the open entry after a line that is not a boundary line
Continued(current, scan) ==
    IF scan.sys_match /\ current = None THEN current
    ELSE IF current # None
         THEN [current EXCEPT !.content = @ \o <<NL>> \o scan.stripped,
                              !.raw_line = @ \o <<NL>> \o scan.line]
         ELSE current

\* the list after "if current_message is not None: messages.append(...)"
Saved(list, current) == IF current # None THEN append(list, current) ELSE list

RECURSIVE ParseLoop(_, _, _, _)
ParseStep(file, i, list, current, scan) ==
    IF scan.stripped = <<>> THEN ParseLoop(file, i + 1, list, current)
    ELSE IF scan.match # None
         THEN ParseLoop(file, i + 1, Saved(list, current), scan.new)
         ELSE ParseLoop(file, i + 1, list, Continued(current, scan))

\* the loop over the lines i.. of the file, then the last entry
ParseLoop(file, i, list, current) ==
    IF i > Len(file) THEN Saved(list, current)
    ELSE ParseStep(file, i, list, current, ScanLine(file[i]))

parse_whatsapp_chat(file) == ParseLoop(file, 1, <<>>, None)

(***************************************************************************)
(* get_participants over the entries of a parsed transcript                *)
(***************************************************************************)
\* ord(c) for the letters, the digits and the blank
ord(c) ==
    IF c \in UpperCaseLetters THEN 64 + (CHOOSE i \in 1..26 : UpperCase[i] = c)
    ELSE IF c \in {LowerCase[i] : i \in 1..26}
         THEN 96 + (CHOOSE i \in 1..26 : LowerCase[i] = c)
    ELSE IF c \in DigitChars THEN 48 + DigitVal(c)
    ELSE 32

\* str < str, comparing letters without regard to case
str_lt_IgnoreCase(a, b) ==
    \/ \E i \in 1..Len(a) :
           /\ i <= Len(b)
           /\ ord(lower_char(a[i])) < ord(lower_char(b[i]))
           /\ \A j \in 1..(i - 1) : lower_char(a[j]) = lower_char(b[j])
    \/ /\ Len(a) < Len(b)
       /\ \A j \in 1..Len(a) : lower_char(a[j]) = lower_char(b[j])

\* str < str: by the code points of the first characters that differ, a
\* proper prefix before the longer string
str_lt(a, b) ==
    \/ \E i \in 1..Len(a) :
           /\ i <= Len(b)
           /\ ord(a[i]) < ord(b[i])
           /\ \A j \in 1..(i - 1) : a[j] = b[j]
    \/ /\ Len(a) < Len(b)
       /\ \A j \in 1..Len(a) : a[j] = b[j]

RECURSIVE sorted(_)
\* sorted(list(participants)) of a set of strings
sorted(participants) ==
    IF participants = {} THEN <<>>
    ELSE LET least == CHOOSE x \in participants :
                          \A y \in participants : ~str_lt(y, x)
         IN  <<least>> \o sorted(participants \ {least})

\* "for msg in messages: participants.add(msg.sender)"
get_participants(msgs) == sorted({msgs[i].sender : i \in 1..Len(msgs)})

\* [01/02/23, 9:00:00 AM] B: hi
RosterLine_B ==
    <<"[","0","1","/","0","2","/","2","3",","," ","9",":","0","0",":","0","0"," ","A","M","]"," ","B",":"," ","h","i","\n">>

\* [01/02/23, 9:00:00 AM] a: yo
RosterLine_a ==
    <<"[","0","1","/","0","2","/","2","3",","," ","9",":","0","0",":","0","0"," ","A","M","]"," ","a",":"," ","y","o","\n">>

\* [01/02/23, 9:00:00 AM] Al: hey
RosterLine_Al ==
    <<"[","0","1","/","0","2","/","2","3",","," ","9",":","0","0",":","0","0"," ","A","M","]"," ","A","l",":"," ","h","e","y","\n">>

\* [01/02/23, 9:00:00 AM] A: ok
RosterLine_A ==
    <<"[","0","1","/","0","2","/","2","3",","," ","9",":","0","0",":","0","0"," ","A","M","]"," ","A",":"," ","o","k","\n">>

RosterLines == {RosterLine_B, RosterLine_a, RosterLine_Al, RosterLine_A}

\* the longest transcript whose participants are asked for
MaxRoster == 3

ReadRosterLine(raw) ==
    /\ pc = "reading"
    /\ Len(lines) < MaxRoster
    /\ LoopBody(raw, ScanLine(raw))

\* get_participants(messages) on the list parse_whatsapp_chat returned
GetParticipants ==
    /\ pc = "done"
    /\ pc' = "returned"
    /\ result' = [call |-> "get_participants", returned |-> get_participants(messages)]
    /\ UNCHANGED <<lines, messages, current_message, content, engine, frame, session_state, widgets, razorpay>>

NextRoster ==
    \/ \E raw \in RosterLines : ReadRosterLine(raw)
    \/ EndOfFile
    \/ GetParticipants

SpecRoster == InitParse /\ [][NextRoster]_vars

(***************************************************************************)
(* The parser over entries that run over several lines, the lines after    *)
(* the first carrying the markers the classifier looks for                 *)
(***************************************************************************)
\* image omitted
Cont_image ==
    <<"i","m","a","g","e"," ","o","m","i","t","t","e","d","\n">>

\* Missed video call, 2 min
Cont_missed ==
    <<"M","i","s","s","e","d"," ","v","i","d","e","o"," ","c","a","l","l",","," ","2"," ","m","i","n","\n">>

\* This message was deleted
Cont_deleted ==
    <<"T","h","i","s"," ","m","e","s","s","a","g","e"," ","w","a","s"," ","d","e","l","e","t","e","d","\n">>

\* <This message was edited>
Cont_edited ==
    <<"<","T","h","i","s"," ","m","e","s","s","a","g","e"," ","w","a","s"," ","e","d","i","t","e","d",">","\n">>

\* security code changed
Cont_noise ==
    <<"s","e","c","u","r","i","t","y"," ","c","o","d","e"," ","c","h","a","n","g","e","d","\n">>

ContinuationLines == {Cont_image, Cont_missed, Cont_deleted, Cont_edited, Cont_noise}

BlockLines == {Line_hello, Line_call} \cup ContinuationLines

\* the longest file of such lines
MaxBlock == 3

ReadBlockLine(raw) ==
    /\ pc = "reading"
    /\ Len(lines) < MaxBlock
    /\ LoopBody(raw, ScanLine(raw))

NextBlock ==
    \/ \E raw \in BlockLines : ReadBlockLine(raw)
    \/ EndOfFile

SpecBlock == InitParse /\ [][NextBlock]_vars

(***************************************************************************)
(* app.py: the Streamlit script.  One step is one run of the script, from  *)
(* the sidebar through the page router to the page it renders, started by  *)
(* a press of a button, a change of the file in the uploader or st.rerun() *)
(***************************************************************************)
PAYMENT_ENABLED == TRUE

STATE_DEFAULTS ==
    [page                  |-> "landing",
     payment_completed     |-> FALSE,
     payment_id            |-> None,
     order_id              |-> None,
     show_checkout         |-> FALSE,
     analysis_results      |-> None,
     uploaded_file_content |-> None,
     participant_mapping   |-> None,
     participant_names     |-> None]

\* a file of one noise line, a file of nine entry lines and a noise line,
\* and a file of ten entry lines
File_noise == <<Line_noise>>

File_nine ==
    <<Line_hello, Line_hi, Line_hello, Line_hi, Line_noise,
      Line_hello, Line_hi, Line_hello, Line_hi, Line_hello>>

File_ten ==
    <<Line_hello, Line_hi, Line_hello, Line_hi, Line_hello,
      Line_hi, Line_hello, Line_hi, Line_hello, Line_hi>>

UploadFiles == {File_noise, File_nine, File_ten}

\* parse_whatsapp_chat, evaluated once for each file
Parsed == [file \in UploadFiles |-> parse_whatsapp_chat(file)]

\* the most orders the gateway is asked for
MaxOrders == 2

\* "bool(key_id and key_secret)"
razorpay_configured(keys) == keys.key_id # "" /\ keys.key_secret # ""

\* the locals `messages` and `metrics` of a run, and the file parsed
Locals(file, msgs, metrics) == [lines |-> file, messages |-> msgs, engine |-> metrics]

NoLocals == Locals(<<>>, <<>>, None)

\* how a run of the script ends: the session state, the page it rendered up
\* to there ("none" when it stopped before any), the buttons on it, whether
\* it ended in st.rerun(), the order it created and its locals
Outcome(s, page, buttons, rerun, order, locals) ==
    [session_state |-> s, page |-> page, buttons |-> buttons, rerun |-> rerun,
     order |-> order, locals |-> locals]

\* Verified, taking any answer of the gateway for a payment
Verified_AnyAnswer(response) == response # "error"

\* "response.status_code == 200" and "order_data.get('status') == 'paid'"
Verified(response) == response = "paid"

\* the part of render_landing_page from "Razorpay checkout" on
Checkout(s, pressed, response) ==
    IF s.show_checkout /\ s.order_id # None
    THEN IF pressed = "verify" /\ Verified(response)
         THEN Outcome([s EXCEPT !.payment_completed = TRUE,
                                !.show_checkout = FALSE,
                                !.page = "upload"],
                      "landing", {}, TRUE, None, NoLocals)
         ELSE Outcome(s, "landing", {"unlock", "pay", "verify"}, FALSE, None, NoLocals)
    ELSE Outcome(s, "landing", {"unlock"}, FALSE, None, NoLocals)

render_landing_page(s, keys, pressed, order, response) ==
    IF ~PAYMENT_ENABLED \/ ~razorpay_configured(keys)
    THEN IF pressed = "get_started"
         THEN Outcome([s EXCEPT !.payment_completed = TRUE, !.page = "upload"],
                      "landing", {}, TRUE, None, NoLocals)
         ELSE Outcome(s, "landing", {"get_started"}, FALSE, None, NoLocals)
    ELSE IF pressed = "unlock" /\ order # None
         THEN Outcome([s EXCEPT !.order_id = order, !.show_checkout = TRUE],
                      "landing", {}, TRUE, order, NoLocals)
         ELSE Checkout(s, pressed, response)

\* "participant.split()[0] if ' ' in participant else participant", of a
\* sender without blanks around it
FirstWord(participant) ==
    LET blanks == {i \in 1..Len(participant) : IsSpace(participant[i])}
    IN  IF " " \in {participant[i] : i \in 1..Len(participant)}
        THEN SubSeq(participant, 1, (CHOOSE i \in blanks : \A j \in blanks : i <= j) - 1)
        ELSE participant

\* "mapping.get(participant, ...)" of a mapping kept as its list of items
LabelOf(mapping, participant) ==
    IF HasKey(mapping, participant)
    THEN mapping[CHOOSE i \in 1..Len(mapping) : mapping[i].key = participant].value
    ELSE FirstWord(participant)

RECURSIVE Labelled(_, _)
\* "mapping[participant] = display_name" for each of the participants, the
\* text inputs left as they are
Labelled(mapping, participants) ==
    IF participants = <<>> THEN mapping
    ELSE Labelled(IF HasKey(mapping, Head(participants)) THEN mapping
                  ELSE Append(mapping, [key |-> Head(participants),
                                        value |-> LabelOf(mapping, Head(participants))]),
                  Tail(participants))

\* the "Start Analysis" button under the names
StartAnalysis(s, pressed, locals) ==
    IF pressed = "start_analysis"
    THEN Outcome([s EXCEPT !.page = "loading"], "upload", {}, TRUE, None, locals)
    ELSE Outcome(s, "upload", {"start_analysis"}, FALSE, None, locals)

\* "if uploaded_file:", s holding the content already
QuickParse(s, pressed, msgs) ==
    IF Len(msgs) >= 10
    THEN StartAnalysis(
             [s EXCEPT !.participant_names = get_participants(msgs),
                       !.participant_mapping =
                           Labelled(<<>>, FirstN(get_participants(msgs), 2))],
             pressed, Locals(s.uploaded_file_content, msgs, None))
    ELSE Outcome(s, "upload", {}, FALSE, None, Locals(s.uploaded_file_content, msgs, None))

render_upload_page(s, keys, pressed, uploaded_file) ==
    IF PAYMENT_ENABLED /\ ~s.payment_completed /\ keys.key_id # ""
    THEN Outcome([s EXCEPT !.page = "landing"], "none", {}, TRUE, None, NoLocals)
    ELSE IF uploaded_file # None
         THEN QuickParse([s EXCEPT !.uploaded_file_content = uploaded_file],
                         pressed, Parsed[uploaded_file])
         ELSE IF s.uploaded_file_content # None /\ s.participant_names # None
              THEN StartAnalysis(
                       [s EXCEPT !.participant_mapping =
                            Labelled(s.participant_mapping, FirstN(s.participant_names, 2))],
                       pressed, NoLocals)
              ELSE Outcome(s, "upload", {}, FALSE, None, NoLocals)

\* run_analysis_pipeline from "if len(messages) < 10" on
Analysed(s, msgs) ==
    IF Len(msgs) < 10
    THEN [session_state |-> [s EXCEPT !.analysis_results = [error |-> "Not enough messages"]],
          locals |-> Locals(s.uploaded_file_content, msgs, None)]
    ELSE [session_state |->
              [s EXCEPT !.analysis_results =
                   [msg_count           |-> Len(msgs),
                    total_days          |-> get_total_days(msgs),
                    participant_mapping |-> s.participant_mapping]],
          locals |-> Locals(s.uploaded_file_content, msgs,
                            MetricsCalculator(msgs, s.participant_mapping))]

run_analysis_pipeline(s) == Analysed(s, Parsed[s.uploaded_file_content])

\* "st.session_state.page = 'results'" and st.rerun() after the pipeline
ToResults(ran) ==
    Outcome([ran.session_state EXCEPT !.page = "results"], "loading", {}, TRUE, None,
            ran.locals)

render_loading_screen(s) == ToResults(run_analysis_pipeline(s))

\* "r.get('error')"
HasError(r) == r # None /\ "error" \in DOMAIN r

render_full_results(s, keys, pressed) ==
    IF s.analysis_results = None
    THEN Outcome([s EXCEPT !.page = "upload"], "none", {}, TRUE, None, NoLocals)
    ELSE IF HasError(s.analysis_results)
    THEN IF pressed = "try_again"
         THEN Outcome([s EXCEPT !.analysis_results = None, !.page = "upload"],
                      "results", {}, TRUE, None, NoLocals)
         ELSE Outcome(s, "results", {"try_again"}, FALSE, None, NoLocals)
    ELSE IF PAYMENT_ENABLED /\ razorpay_configured(keys) /\ ~s.payment_completed
    THEN Outcome([s EXCEPT !.page = "landing"], "none", {}, TRUE, None, NoLocals)
    ELSE Outcome(s, "results", {}, FALSE, None, NoLocals)

\* the "Safety guards" of the page router, one after the other
UnpaidToLanding(s, keys, page) ==
    IF s.page = page /\ ~s.payment_completed /\ PAYMENT_ENABLED /\ keys.key_id # ""
    THEN [s EXCEPT !.page = "landing"] ELSE s

LoadingWithoutContent(s) ==
    IF s.page = "loading" /\ s.uploaded_file_content = None
    THEN [s EXCEPT !.page = "upload"] ELSE s

ResultsWithoutResults(s) ==
    IF s.page = "results" /\ s.analysis_results = None
    THEN [s EXCEPT !.page = "upload"] ELSE s

Routed(s, keys) ==
    UnpaidToLanding(
        ResultsWithoutResults(
            LoadingWithoutContent(
                UnpaidToLanding(UnpaidToLanding(s, keys, "upload"), keys, "loading"))),
        keys, "results")

\* "if page == 'landing': render_landing_page() elif ..."
Render(s, keys, pressed, uploaded_file, order, response) ==
    CASE s.page = "landing" -> render_landing_page(s, keys, pressed, order, response)
      [] s.page = "upload"  -> render_upload_page(s, keys, pressed, uploaded_file)
      [] s.page = "loading" -> render_loading_screen(s)
      [] s.page = "results" -> render_full_results(s, keys, pressed)

\* the button of the sidebar
Sidebar(s) == IF s.page \in {"upload", "results"} THEN {"analyze_new"} ELSE {}

\* one run of the script
Script(s, keys, pressed, uploaded_file, order, response) ==
    IF pressed = "analyze_new" /\ Sidebar(s) # {}
    THEN Outcome(STATE_DEFAULTS, "none", {}, TRUE, None, NoLocals)
    ELSE Render(Routed(s, keys), keys, pressed, uploaded_file, order, response)

\* the file in the uploader after a run: the widget keeps its file while
\* the runs render it and loses it with a run that renders another page
Uploader(out, uploaded_file) ==
    IF out.page = "upload" THEN uploaded_file
    ELSE IF out.page = "none" THEN widgets.chat_uploader
    ELSE None

\* what the run leaves behind
Finish(s, out, pressed, uploaded_file) ==
    /\ session_state' = out.session_state
    /\ widgets' = [page          |-> out.page,
                   buttons       |-> IF out.rerun THEN {} ELSE out.buttons \cup Sidebar(s),
                   chat_uploader |-> Uploader(out, uploaded_file),
                   pressed       |-> pressed,
                   rerun         |-> out.rerun]
    /\ razorpay' = IF out.order # None
                   THEN [razorpay EXCEPT !.orders = Append(@, "created")]
                   ELSE razorpay
    /\ lines' = out.locals.lines
    /\ messages' = out.locals.messages
    /\ engine' = out.locals.engine
    /\ UNCHANGED <<pc, current_message, content, frame, result>>

Run(pressed, uploaded_file, order, response) ==
    /\ pc = "app"
    /\ Finish(session_state,
              Script(session_state, razorpay, pressed, uploaded_file, order, response),
              pressed, uploaded_file)

InitApp ==
    /\ pc = "app"
    /\ lines = <<>>
    /\ messages = <<>>
    /\ current_message = None
    /\ content = None
    /\ engine = None
    /\ frame = None
    /\ result = None
    /\ session_state = STATE_DEFAULTS
    /\ widgets = [page |-> "none", buttons |-> {}, chat_uploader |-> None,
                  pressed |-> "none", rerun |-> TRUE]
    /\ \E key_id \in {"", "rzp_id"}, key_secret \in {"", "rzp_secret"} :
           razorpay = [key_id |-> key_id, key_secret |-> key_secret, orders |-> <<>>]

\* the first run of a session and every run started by st.rerun()
Rerun ==
    /\ widgets.rerun
    /\ Run("none", widgets.chat_uploader, None, "none")

\* create_order(PAYMENT_AMOUNT): the new order, or None when the request
\* fails
create_order ==
    {None} \cup (IF Len(razorpay.orders) < MaxOrders
                 THEN {Some(Len(razorpay.orders) + 1)} ELSE {})

\* what the gateway answers when asked for the order of the session
Responses ==
    {"error"} \cup (IF session_state.order_id # None
                    THEN {razorpay.orders[session_state.order_id[1]]} ELSE {})

\* the user presses a button of the page
Press(button) ==
    /\ ~widgets.rerun
    /\ button \in widgets.buttons \ {"pay"}
    /\ \E order \in (IF button = "unlock" THEN create_order ELSE {None}),
          response \in (IF button = "verify" THEN Responses ELSE {"none"}) :
           Run(button, widgets.chat_uploader, order, response)

\* the user puts a file into the uploader of the upload page
Upload(file) ==
    /\ ~widgets.rerun
    /\ widgets.page = "upload"
    /\ file # widgets.chat_uploader
    /\ Run("none", file, None, "none")

\* the user takes the file out of the uploader
Remove ==
    /\ ~widgets.rerun
    /\ widgets.page = "upload"
    /\ widgets.chat_uploader # None
    /\ Run("none", None, None, "none")

\* the user pays the order in the checkout window
Pay ==
    /\ pc = "app"
    /\ ~widgets.rerun
    /\ "pay" \in widgets.buttons
    /\ razorpay' = [razorpay EXCEPT !.orders[session_state.order_id[1]] = "paid"]
    /\ UNCHANGED <<pc, lines, messages, current_message, content, engine, frame, result,
                   session_state, widgets>>

NextApp ==
    \/ Rerun
    \/ \E button \in {"get_started", "unlock", "verify", "start_analysis",
                      "try_again", "analyze_new"} : Press(button)
    \/ \E file \in UploadFiles : Upload(file)
    \/ Remove
    \/ Pay

SpecApp == InitApp /\ [][NextApp]_vars

(***************************************************************************)
(* The lines of FileLines as a reader of the transcript sees them          *)
(***************************************************************************)
\* the lines of the form "[date, time] sender: content"
BoundaryLines ==
    {Line_hello, Line_hi, Line_noise, Line_badts, Line_nospace, Line_call}

\* the boundary lines whose content is a system notification
NoiseLines == {Line_noise}

\* the boundary lines whose date or time does not parse
BadStampLines == {Line_badts, Line_nospace}

\* the boundary lines that yield an entry
EntryLines == BoundaryLines \ (NoiseLines \cup BadStampLines)

BlankLines == {Line_blank}

\* the content of the entry an entry line opens
FirstContent(raw) ==
    CASE raw = Line_hello  -> <<"h","e","l","l","o">>
      [] raw = Line_hi     -> <<"h","i">>
      [] raw = Line_call   -> <<"V","o","i","c","e"," ","c","a","l","l",","," ","1"," ","h","r"," ","5"," ","m","i","n">>

\* the text of a line that is not a boundary line, without the blanks and
\* the line end around it
StrippedText(raw) ==
    CASE raw = Line_world -> <<"w","o","r","l","d">>
      [] raw = Line_blank -> <<>>
      [] raw = Line_sys   -> <<"[","0","1","/","0","2","/","2","3",","," ","9",":","2","3",":","0","0"," ","P","M","]"," ","A","l","i","c","e"," ","j","o","i","n","e","d">>

\* the date and time an entry line carries
StampOf(raw) ==
    CASE raw = Line_hello  -> [year |-> 2023, month |-> 2, day |-> 1, hour |-> 21, minute |-> 15, second |-> 3]
      [] raw = Line_hi     -> [year |-> 2023, month |-> 1, day |-> 31, hour |-> 8, minute |-> 0, second |-> 0]
      [] raw = Line_call   -> [year |-> 2023, month |-> 2, day |-> 1, hour |-> 21, minute |-> 20, second |-> 0]

\* positions in the file read so far
BoundaryIdx == {i \in 1..Len(lines) : lines[i] \in BoundaryLines}

EntryIdx == {i \in 1..Len(lines) : lines[i] \in EntryLines}

\* the last line before the next boundary line after line i, or the last line
BlockEnd(i) ==
    LET later == {j \in BoundaryIdx : j > i}
    IN  IF later = {} THEN Len(lines)
        ELSE (CHOOSE j \in later : \A k \in later : j <= k) - 1

\* the most recent boundary line read, 0 when there is none
LastBoundary ==
    IF BoundaryIdx = {} THEN 0
    ELSE CHOOSE j \in BoundaryIdx : \A k \in BoundaryIdx : k <= j

\* the entry line at position i is the Rank(i)-th entry line of the file
Rank(i) == Cardinality({j \in EntryIdx : j <= i})

RECURSIVE AllFollowing(_, _)
\* a newline and the stripped text of each of the lines i..e
AllFollowing(i, e) ==
    IF i > e THEN <<>>
    ELSE <<NL>> \o StrippedText(lines[i]) \o AllFollowing(i + 1, e)

RECURSIVE NonBlankFollowing(_, _)
\* a newline and the stripped text of each of the lines i..e that is not blank
NonBlankFollowing(i, e) ==
    IF i > e THEN <<>>
    ELSE (IF lines[i] \in BlankLines THEN <<>> ELSE <<NL>> \o StrippedText(lines[i]))
         \o NonBlankFollowing(i + 1, e)

\* every entry there is so far: the emitted ones and the open one
Entries ==
    messages \o (IF current_message = None THEN <<>> ELSE <<current_message>>)

\* this step reads the line raw
ReadsLine(raw) == pc = "reading" /\ lines' = Append(lines, raw)

(***************************************************************************)
(* Claims about parse_whatsapp_chat                                        *)
(***************************************************************************)
\* C1 as stated: once the file is parsed, the entry of every entry line has
\* as content the line's own content followed by every one of the k lines up
\* to the next boundary line, each after a newline.
C1_AsStated ==
    pc = "done" =>
        \A i \in EntryIdx :
            /\ Rank(i) <= Len(messages)
            /\ messages[Rank(i)].content
                   = FirstContent(lines[i]) \o AllFollowing(i + 1, BlockEnd(i))

\* C1 amended: once the file is parsed, the entry of every entry line has as
\* content the line's own content followed by the stripped text of every
\* non-blank line up to the next boundary line, in order, each after a
\* newline; blank lines are skipped and add nothing.
C1_ContinuationMerge ==
    pc = "done" =>
        \A i \in EntryIdx :
            /\ Rank(i) <= Len(messages)
            /\ messages[Rank(i)].content
                   = FirstContent(lines[i]) \o NonBlankFollowing(i + 1, BlockEnd(i))

\* an entry line followed by a blank line and by two other lines was parsed
C1_Witness ==
    /\ pc = "done"
    /\ lines = <<Line_hello, Line_world, Line_blank, Line_sys>>
    /\ Len(messages) = 1
    /\ messages[1].content = <<"h","e","l","l","o">> \o <<NL>> \o <<"w","o","r","l","d">> \o <<NL>> \o <<"[","0","1","/","0","2","/","2","3",","," ","9",":","2","3",":","0","0"," ","P","M","]"," ","A","l","i","c","e"," ","j","o","i","n","e","d">>

\* the number of lines appended to a content string
NewlineCount(c) == Len(SelectSeq(c, LAMBDA x : x = NL))

\* C2: reading a noise line produces no entry and leaves no entry open (the
\* entry open before it is emitted as it is), and a line that is not a
\* boundary line, read while the most recent boundary line is a noise line
\* or before any boundary line, changes no entry; in the end every entry
\* holds only the lines between its own boundary line and the next one.
C2_NoiseDiscards ==
    /\ [][\A raw \in FileLines : ReadsLine(raw) =>
          /\ raw \in NoiseLines =>
                 (current_message' = None /\ messages' = Entries)
          /\ (/\ raw \notin BoundaryLines
              /\ (LastBoundary = 0 \/ lines[LastBoundary] \in NoiseLines)) =>
                 (current_message' = None /\ messages' = messages /\ Entries' = Entries)
      ]_vars
    /\ [](pc = "done" =>
            \A i \in EntryIdx :
                NewlineCount(messages[Rank(i)].content)
                    = Cardinality({j \in (i + 1)..BlockEnd(i) : lines[j] \notin BlankLines}))

\* an entry, a noise line, a line that is not a boundary line and another
\* entry were read: two entries, neither holds the discarded line
C2_Witness ==
    /\ pc = "done"
    /\ lines = <<Line_hello, Line_noise, Line_world, Line_hi>>
    /\ Len(messages) = 2
    /\ messages[1].content = <<"h","e","l","l","o">>
    /\ messages[2].content = <<"h","i">>

\* C3: reading a boundary line whose timestamp does not parse keeps the
\* parser reading, produces no entry and leaves no entry open (the entry open
\* before it is emitted as it is), and the lines that follow it up to the
\* next boundary line change no entry.
C3_BadTimestampSkipped ==
    [][\A raw \in FileLines : ReadsLine(raw) =>
          /\ raw \in BadStampLines =>
                 (pc' = "reading" /\ current_message' = None /\ messages' = Entries)
          /\ (/\ raw \notin BoundaryLines
              /\ LastBoundary # 0
              /\ lines[LastBoundary] \in BadStampLines) =>
                 (pc' = "reading" /\ current_message' = None /\ messages' = messages)
      ]_vars

\* an entry, a line with an impossible date, a line that is not a boundary
\* line and another entry were read, and the file was parsed to its end
C3_Witness ==
    /\ pc = "done"
    /\ lines = <<Line_hello, Line_badts, Line_world, Line_hi>>
    /\ Len(messages) = 2
    /\ messages[1].content = <<"h","e","l","l","o">>
    /\ messages[2].content = <<"h","i">>

\* C4: once the file is parsed there is one entry for each entry line, and
\* the k-th entry carries the date and time of the k-th entry line of the
\* file, whatever the order of the dates.
C4_SourceOrder ==
    pc = "done" =>
        /\ Len(messages) = Cardinality(EntryIdx)
        /\ \A i \in EntryIdx : messages[Rank(i)].timestamp = StampOf(lines[i])

\* a file whose second entry is dated before its first was parsed
C4_Witness ==
    /\ pc = "done"
    /\ Len(messages) >= 2
    /\ messages[1].timestamp = StampOf(Line_hello)
    /\ messages[2].timestamp = StampOf(Line_hi)
    /\ dt_lt(messages[2].timestamp, messages[1].timestamp)

(***************************************************************************)
(* Claims about classify_message_type and parse_call_duration              *)
(***************************************************************************)
MediaKinds ==
    {"IMAGE", "VIDEO", "AUDIO", "STICKER", "GIF", "DOCUMENT", "LOCATION", "CONTACT"}

VideoCallKinds == {"VIDEO_CALL", "MISSED_VIDEO_CALL"}

VoiceCallKinds == {"VOICE_CALL", "MISSED_VOICE_CALL"}

CallKinds == VideoCallKinds \cup VoiceCallKinds

AnsweredCallKinds == {"VIDEO_CALL", "VOICE_CALL"}

\* does the text contain the marker, whatever the case of its letters
Has(c, marker) == contains(lower(c), marker)

HasMediaMarker(c) ==
    \E marker \in {S_image_omitted, S_video_omitted, S_audio_omitted,
                   S_sticker_omitted, S_gif_omitted, S_document_omitted,
                   S_location, S_live_location_shared, S_contact_card_omitted} :
        Has(c, marker)

HasDeletionMarker(c) ==
    Has(c, S_this_message_was_deleted) \/ Has(c, S_you_deleted_this_message)

HasMissedMarker(c) == Has(c, S_missed) \/ Has(c, S_no_answer)

\* C5: a content with a media marker is classified as a media kind even when
\* it carries a call marker or a deletion marker; a call kind is given only
\* to a content with a call marker and no media marker, also when it carries
\* a deletion marker; DELETED only to a content with a deletion marker that
\* was given neither a media nor a call kind; everything else is TEXT.
C5_ClassificationPriority ==
    pc = "classified" =>
        /\ HasMediaMarker(content) => result.message_type \in MediaKinds
        /\ result.message_type \in MediaKinds => HasMediaMarker(content)
        /\ result.message_type \in CallKinds =>
               Has(content, S_call) /\ ~HasMediaMarker(content)
        /\ result.message_type = "DELETED" => HasDeletionMarker(content)
        /\ (HasDeletionMarker(content) /\ ~Has(content, S_call)
                /\ ~HasMediaMarker(content)) => result.message_type = "DELETED"
        /\ result.message_type \in MediaKinds \cup CallKinds \cup {"DELETED", "TEXT"}
        /\ (~HasMediaMarker(content) /\ ~Has(content, S_call)
                /\ ~HasDeletionMarker(content)) => result.message_type = "TEXT"

\* a content with a media marker and a call marker was classified as media
C5_Witness ==
    /\ pc = "classified"
    /\ HasMediaMarker(content)
    /\ Has(content, S_video_call)
    /\ result.message_type = "IMAGE"

\* the kind C6 gives a content that "video call" makes a video call, and
\* anything else that the call rule accepts a voice call
CallKindOf(c, video) ==
    IF video THEN (IF HasMissedMarker(c) THEN "MISSED_VIDEO_CALL" ELSE "VIDEO_CALL")
    ELSE (IF HasMissedMarker(c) THEN "MISSED_VOICE_CALL" ELSE "VOICE_CALL")

\* C6 as stated: without a media marker, the kind is a call kind exactly
\* when the content has "video call" or has "call" and not "video".
C6_AsStated ==
    (pc = "classified" /\ ~HasMediaMarker(content)) =>
        LET video == Has(content, S_video_call)
            plain == Has(content, S_call) /\ ~Has(content, S_video)
        IN  /\ result.message_type \in CallKinds <=> (video \/ plain)
            /\ video => result.message_type = CallKindOf(content, TRUE)
            /\ (~video /\ plain) => result.message_type = CallKindOf(content, FALSE)

\* C6 amended: without a media marker, the kind is a call kind exactly when
\* the content has "video call", or has "voice call", or has "call" and not
\* "video"; "video call" gives the video-call kind and the other two the
\* voice-call kind, the missed one when there is a missed or no-answer marker.
C6_CallClassification ==
    (pc = "classified" /\ ~HasMediaMarker(content)) =>
        LET video == Has(content, S_video_call)
            voice == Has(content, S_voice_call)
            plain == Has(content, S_call) /\ ~Has(content, S_video)
        IN  /\ result.message_type \in CallKinds <=> (video \/ voice \/ plain)
            /\ video => result.message_type = CallKindOf(content, TRUE)
            /\ (~video /\ (voice \/ plain)) =>
                   result.message_type = CallKindOf(content, FALSE)

\* a content with "voice call" and "video" but no "video call" was
\* classified as a missed voice call
C6_Witness ==
    /\ pc = "classified"
    /\ Has(content, S_voice_call)
    /\ Has(content, S_video)
    /\ ~Has(content, S_video_call)
    /\ HasMissedMarker(content)
    /\ result.message_type = "MISSED_VOICE_CALL"

\* the value of the quantity found for a unit, 0 when none is found
Quantity(c, unit) ==
    IF re_search_quantity(c, unit) = None THEN 0 ELSE int(re_search_quantity(c, unit))

NoQuantityFound(c) ==
    \A unit \in {S_hr, S_min, S_sec} : re_search_quantity(c, unit) = None

\* C7: parse_call_duration returns None for a missed or unanswered call and
\* when no quantity is found, and otherwise hours * 3600 + minutes * 60 +
\* seconds over the quantities found.
C7_DurationIsSumOfFragments ==
    pc = "duration" =>
        result = IF HasMissedMarker(content) \/ NoQuantityFound(content) THEN None
                 ELSE Some(Quantity(content, S_hr) * 3600
                           + Quantity(content, S_min) * 60
                           + Quantity(content, S_sec))

\* C8: an entry has a call duration only when it is an answered call, and the
\* duration is then a positive number of seconds.
C8_DurationOnlyForAnsweredCalls ==
    \A i \in 1..Len(Entries) :
        Entries[i].call_duration_seconds # None =>
            /\ Entries[i].message_type \in AnsweredCallKinds
            /\ Entries[i].call_duration_seconds[1] > 0

\* the parser produced a video call of 1 hr 5 min
C8_Witness ==
    /\ pc = "done"
    /\ Len(messages) = 1
    /\ messages[1].message_type = "VIDEO_CALL"
    /\ messages[1].call_duration_seconds = Some(3900)

(***************************************************************************)
(* Claims about the metrics engine                                         *)
(***************************************************************************)
\* the value of a dict for a key, 0 when the key is missing
Count(d, k) == IF k \in DOMAIN d THEN d[k] ELSE 0

\* the maximal runs of entries by one sender, as pairs <<first, last>>
Runs ==
    {r \in (1..Len(messages)) \X (1..Len(messages)) :
        /\ r[1] <= r[2]
        /\ \A i \in r[1]..r[2] : messages[i].sender = messages[r[1]].sender
        /\ (r[1] = 1 \/ messages[r[1] - 1].sender # messages[r[1]].sender)
        /\ (r[2] = Len(messages) \/ messages[r[2] + 1].sender # messages[r[2]].sender)}

RECURSIVE SumExtra(_)
\* the sum of L - 1 over a set of runs of length L
SumExtra(rs) ==
    IF rs = {} THEN 0
    ELSE LET r == CHOOSE x \in rs : TRUE
         IN  (r[2] - r[1]) + SumExtra(rs \ {r})

\* C9: get_double_messages credits each sender with L - 1 for each of its
\* maximal runs of L >= 2 entries, the last run included, and has no key for
\* a sender without such a run; for [A, A, A, B, B] it returns A = 2, B = 1.
C9_StreakAccounting ==
    (pc = "engine" /\ result # None /\ result.call = "get_double_messages") =>
        /\ \A s \in Senders :
               Count(result.returned, s)
                   = SumExtra({r \in Runs : messages[r[1]].sender = s /\ r[2] - r[1] >= 1})
        /\ \A s \in DOMAIN result.returned : result.returned[s] >= 1
        /\ [i \in 1..Len(messages) |-> messages[i].sender]
               = <<SenderA, SenderA, SenderA, SenderB, SenderB>>
           => (result.returned[SenderA] = 2 /\ result.returned[SenderB] = 1)

\* get_double_messages was called on a list of senders [A, A, A, B, B]
C9_Witness ==
    /\ pc = "engine"
    /\ result # None
    /\ result.call = "get_double_messages"
    /\ [i \in 1..Len(messages) |-> messages[i].sender]
           = <<SenderA, SenderA, SenderA, SenderB, SenderB>>
    /\ DOMAIN result.returned = {SenderA, SenderB}

\* the seconds from entry i - 1 to entry i
GapSeconds(i) ==
    (toordinal(messages[i].timestamp) - toordinal(messages[i - 1].timestamp)) * 86400
    + (messages[i].timestamp.hour - messages[i - 1].timestamp.hour) * 3600
    + (messages[i].timestamp.minute - messages[i - 1].timestamp.minute) * 60
    + (messages[i].timestamp.second - messages[i - 1].timestamp.second)

\* C10: get_conversation_initiations credits the sender of the first entry
\* once and the sender of every later entry once exactly when the entry comes
\* gap_hours * 3600 seconds or more after the entry before it, whoever sent
\* that one.
C10_InitiationDetection ==
    (pc = "engine" /\ result # None /\ result.call = "get_conversation_initiations") =>
        \A s \in Senders :
            Count(result.returned, s)
                = (IF messages # <<>> /\ messages[1].sender = s THEN 1 ELSE 0)
                  + Cardinality({i \in 2..Len(messages) :
                                    /\ messages[i].sender = s
                                    /\ GapSeconds(i) >= result.gap_hours * 3600})

\* with the default gap of 6 hours: B wrote exactly 6 hours after A and is
\* credited, then A wrote 5:59:59 after an entry of its own and is not
C10_Witness ==
    /\ pc = "engine"
    /\ result # None
    /\ result.call = "get_conversation_initiations"
    /\ result.gap_hours = 6
    /\ Len(messages) = 4
    /\ messages[1] = Message(Evening, SenderA, <<"o","k">>, "TEXT", <<>>, None, FALSE)
    /\ messages[2] = Message(Midnight, SenderB, <<"o","k">>, "TEXT", <<>>, None, FALSE)
    /\ messages[3] = Message(Evening, SenderA, <<"o","k">>, "TEXT", <<>>, None, FALSE)
    /\ messages[4] = Message(LastSecond, SenderA, <<"o","k">>, "TEXT", <<>>, None, FALSE)
    /\ result.returned[SenderA] = 1
    /\ result.returned[SenderB] = 1

(***************************************************************************)
(* Claims about the engine's timing functions                              *)
(***************************************************************************)
\* the entries i whose sender is s and differs from the sender before
Replies(s) ==
    {i \in 2..Len(messages) :
        messages[i].sender = s /\ messages[i - 1].sender # s}

\* the number of samples a dict of lists has for a sender
Samples(d, s) == IF s \in DOMAIN d THEN Len(d[s]) ELSE 0

\* C11 as the claim states it: a pair of entries of one sender never gives a
\* sample, and a pair of different senders gives one only when less than 24
\* hours lie between them: exactly 1440 minutes gives none.
C11_AsStated ==
    (pc = "returned" /\ result # None /\ result.call = "get_response_times") =>
        \A s \in Senders :
            Samples(result.returned, s)
                = Cardinality({i \in Replies(s) : GapSeconds(i) < 86400})

\* C11: in get_response_times a pair of adjacent entries of one sender never
\* gives a sample, whatever time lies between them, and a pair of different
\* senders gives a sample exactly when the later entry comes at most 1440
\* minutes after the earlier one: 1439 and exactly 1440 minutes are kept,
\* 1441 minutes are dropped.
C11_ResponseTimeExclusion ==
    (pc = "returned" /\ result # None /\ result.call = "get_response_times") =>
        \A s \in Senders :
            /\ Samples(result.returned, s)
                   = Cardinality({i \in Replies(s) : GapSeconds(i) <= 86400})
            /\ \A i \in Replies(s) :
                   GapSeconds(i) <= 86400
                       => \E k \in 1..Len(result.returned[s]) :
                              result.returned[s][k] = Float(GapSeconds(i), 60)
            /\ s \in DOMAIN result.returned => result.returned[s] # <<>>

\* B answered A after exactly 1440 minutes and the sample was kept, A then
\* wrote 1441 minutes before an entry of its own
C11_Witness ==
    /\ pc = "returned"
    /\ result # None
    /\ result.call = "get_response_times"
    /\ Len(messages) = 3
    /\ messages[1].sender = SenderA /\ messages[1].timestamp = Morning
    /\ messages[2].sender = SenderB /\ messages[2].timestamp = DayLater
    /\ messages[3].sender = SenderB /\ messages[3].timestamp = OverDayLater
    /\ result.returned = (SenderB :> <<Float(1440, 1)>>)

\* the replies of a sender that get_response_times keeps
Surviving(s) == {i \in Replies(s) : GapSeconds(i) <= 86400}

\* the kept replies of a sender that came within a threshold in minutes
Prompt(s, threshold_minutes) ==
    {i \in Surviving(s) :
        GapSeconds(i) * threshold_minutes.den <= 60 * threshold_minutes.num}

\* C12: the samples are filed under the sender of the later entry of each
\* pair, and get_immediate_replies_percentage gives a sender 100 times the
\* number of its own kept samples at or below the threshold divided by the
\* number of its own kept samples, a value from 0 to 100.
C12_ImmediateShare ==
    /\ (pc = "returned" /\ result # None /\ result.call = "get_response_times") =>
           \A s \in Senders : Samples(result.returned, s) = Cardinality(Surviving(s))
    /\ (pc = "returned" /\ result # None
            /\ result.call = "get_immediate_replies_percentage") =>
           /\ DOMAIN result.returned = {s \in Senders : Surviving(s) # {}}
           /\ \A s \in DOMAIN result.returned :
                  /\ result.returned[s]
                         = Float(100 * Cardinality(Prompt(s, result.threshold_minutes)),
                                 Cardinality(Surviving(s)))
                  /\ f_le(Float(0, 1), result.returned[s])
                  /\ f_le(result.returned[s], Float(100, 1))

\* with the default threshold of one minute: B answered A after one minute,
\* A answered B after 1438 minutes; of two samples one is immediate, and B
\* gets 100 and A gets 0
C12_Witness ==
    /\ pc = "returned"
    /\ result # None
    /\ result.call = "get_immediate_replies_percentage"
    /\ result.threshold_minutes = Float(1, 1)
    /\ Len(messages) = 3
    /\ messages[1].sender = SenderA /\ messages[1].timestamp = Morning
    /\ messages[2].sender = SenderB /\ messages[2].timestamp = MinuteLater
    /\ messages[3].sender = SenderA /\ messages[3].timestamp = AlmostDayLater
    /\ result.returned = (SenderA :> Float(0, 1)) @@ (SenderB :> Float(100, 1))

(***************************************************************************)
(* Claims about the engine over entries of every kind                      *)
(***************************************************************************)
\* the calls that return one value for each sender with response samples
PerSampleCalls ==
    {"get_average_response_time", "get_median_response_time",
     "get_immediate_replies_percentage"}

\* the senders of the entries that have no kept response sample
WithoutSamples == {s \in SendersOf(messages) : Surviving(s) = {}}

\* the text entries of a sender
TextsOf(s) ==
    {i \in 1..Len(messages) : messages[i].sender = s /\ messages[i].message_type = "TEXT"}

\* C13 as the claim states it: a sender with no response-time samples gets
\* a zero mean, median and immediacy percentage; get_message_ratio returns
\* 0.0 for every participant when there are no entries; and
\* get_average_message_length returns 0 for a participant with no text entry.
C13_AsStated ==
    /\ (pc = "returned" /\ result.call \in PerSampleCalls) =>
           \A s \in WithoutSamples :
               s \in DOMAIN result.returned /\ result.returned[s] = Float(0, 1)
    /\ (pc = "returned" /\ result.call = "get_message_ratio" /\ messages = <<>>) =>
           \A p \in Range(engine.participants) : result.returned[p] = Float(0, 1)
    /\ (pc = "returned" /\ result.call = "get_average_message_length") =>
           \A p \in Range(engine.participants) :
               TextsOf(p) = {} => result.returned[p] = Float(0, 1)

\* C13: no metrics function takes a mean or a median over an empty list or
\* divides by zero.  The mean, the median and the immediacy percentage have
\* a value exactly for the senders with at least one kept response sample:
\* a sender with no sample has no key in these results.  get_message_ratio
\* returns 0.0 for every participant when there are no entries, and
\* get_average_message_length returns 0 for a participant with no text
\* entry and words / entries for one with text entries.
C13_EmptySamples ==
    /\ (pc = "returned" /\ result.call \in PerSampleCalls) =>
           /\ DOMAIN result.returned = {s \in SendersOf(messages) : Surviving(s) # {}}
           /\ \A s \in WithoutSamples : s \notin DOMAIN result.returned
           /\ \A s \in DOMAIN result.returned : result.returned[s].den > 0
    /\ (pc = "returned" /\ result.call = "get_message_ratio") =>
           /\ DOMAIN result.returned = Range(engine.participants)
           /\ messages = <<>> =>
                  \A p \in Range(engine.participants) : result.returned[p] = Float(0, 1)
           /\ messages # <<>> =>
                  \A p \in Range(engine.participants) :
                      result.returned[p]
                          = Float(100 * Cardinality({i \in 1..Len(messages) :
                                                       messages[i].sender = p}),
                                  Len(messages))
    /\ (pc = "returned" /\ result.call = "get_average_message_length") =>
           /\ DOMAIN result.returned = Range(engine.participants)
           /\ \A p \in Range(engine.participants) :
                  /\ TextsOf(p) = {} => result.returned[p] = Float(0, 1)
                  /\ TextsOf(p) # {} =>
                         result.returned[p]
                             = Float(SumOf([i \in 1..Len(messages) |->
                                              IF i \in TextsOf(p)
                                              THEN WordCount(messages[i].content) ELSE 0]),
                                     Cardinality(TextsOf(p)))

\* A wrote twice and B never: the mean has no key at all, for A or for B
C13_Witness_NoSample ==
    /\ pc = "returned"
    /\ result.call = "get_average_response_time"
    /\ Len(messages) = 2
    /\ SendersOf(messages) = {SenderA}
    /\ result.returned = <<>>

\* the ratio over no entries is 0.0 for both participants, and the average
\* length is 0 for D, who is in the mapping and wrote nothing
C13_Witness ==
    \/ /\ pc = "returned"
       /\ result.call = "get_message_ratio"
       /\ messages = <<>>
       /\ result.returned = (SenderA :> Float(0, 1)) @@ (SenderB :> Float(0, 1))
    \/ /\ pc = "returned"
       /\ result.call = "get_average_message_length"
       /\ messages # <<>>
       /\ TextsOf(SenderA) # {}
       /\ result.returned[SenderD] = Float(0, 1)
       /\ result.returned[SenderA] # Float(0, 1)

(***************************************************************************)
(* Claims about the transcript read and then measured                      *)
(***************************************************************************)
\* the lines that yield no entry: noise, a stamp that does not parse, no
\* stamp at all
NoEntryLines == TranscriptLines \ {Line_hello}

OnlyNoEntryLines == \A i \in 1..Len(lines) : lines[i] \in NoEntryLines

\* a dict with a zero for each name of `types`, for each participant
ZeroCounts(types) ==
    [p \in Range(engine.participants) |-> [name \in DOMAIN types |-> 0]]

ZeroOfEach == [p \in Range(engine.participants) |-> Float(0, 1)]

ZeroGrid == [dow \in 0..6 |-> [hour \in 0..23 |-> 0]]

\* what get_all_metrics returns for no entries
AllEmpty ==
    [message_counts           |-> <<>>,
     message_ratio            |-> ZeroOfEach,
     double_messages          |-> <<>>,
     conversation_initiations |-> <<>>,
     average_response_time    |-> <<>>,
     median_response_time     |-> <<>>,
     immediate_replies        |-> <<>>,
     first_response_time      |-> <<>>,
     word_counts              |-> <<>>,
     character_counts         |-> <<>>,
     unique_words             |-> <<>>,
     average_message_length   |-> ZeroOfEach,
     emoji_counts             |-> <<>>,
     media_counts             |-> ZeroCounts(media_types),
     link_counts              |-> <<>>,
     call_counts              |-> ZeroCounts(call_types),
     total_call_duration      |-> <<>>,
     hourly_distribution      |-> <<>>,
     daily_distribution       |-> <<>>,
     monthly_totals           |-> <<>>,
     date_range               |-> <<S_None, S_None>>,
     total_days               |-> 0,
     active_days              |-> 0]

\* the value of a metrics function for no entries: an empty mapping, or a
\* zero for each participant of the mapping where the function goes by
\* the participants
EmptyDefault(call) ==
    CASE call = "get_hourly_heatmap"         -> ZeroGrid
      [] call = "get_date_range"             -> <<None, None>>
      [] call = "get_total_days"             -> 0
      [] call = "get_active_days"            -> 0
      [] call = "get_message_ratio"          -> ZeroOfEach
      [] call = "get_average_message_length" -> ZeroOfEach
      [] call = "get_media_counts"           -> ZeroCounts(media_types)
      [] call = "get_call_counts"            -> ZeroCounts(call_types)
      [] call = "get_all_metrics"            -> AllEmpty
      [] OTHER                               -> <<>>

\* a metrics function has returned
Returned == pc \in {"engine", "returned"} /\ result # None

\* C14: a transcript of noise lines and lines that do not parse gives an
\* empty list of entries, and over an empty list every metrics function,
\* get_all_metrics included, returns its value for no entries: an empty
\* mapping (zeros for each participant where the function goes by the
\* mapping), the 7x24 grid of zeros, (None, None), 0 days, 0 active days.
C14_EmptyInput ==
    /\ (pc \in {"done", "engine", "returned"} /\ OnlyNoEntryLines) => messages = <<>>
    /\ (Returned /\ messages = <<>>) => result.returned = EmptyDefault(result.call)

\* a noise line and a line with the 31st of February were read, and
\* get_all_metrics returned the values for no entries
C14_Witness ==
    /\ pc = "returned"
    /\ lines = <<Line_noise, Line_badts>>
    /\ messages = <<>>
    /\ result.call = "get_all_metrics"
    /\ result.returned.date_range = <<S_None, S_None>>
    /\ result.returned.total_days = 0
    /\ result.returned.message_counts = <<>>

\* the sum of the 168 cells of a grid
RowSum(row) == SumOf([k \in 1..24 |-> row[k - 1]])

GridSum(grid) == SumOf([k \in 1..7 |-> RowSum(grid[k - 1])])

\* the day of the week of a stamp, Monday being 0: 2023-02-06 was a Monday
DayOfWeek(ts) == (toordinal(ts) - toordinal(datetime(2023, 2, 6, 0, 0, 0))) % 7

\* C15 as the claim states it: the cells of the grid sum up to the number of
\* text, media and call entries.
C15_AsStated ==
    (pc = "returned" /\ result.call = "get_hourly_heatmap") =>
        GridSum(result.returned)
            = Cardinality({i \in 1..Len(messages) :
                  messages[i].message_type \in {"TEXT"} \cup MediaKinds \cup CallKinds})

\* C15: the cells of the 7x24 grid of get_hourly_heatmap sum up to the
\* number of entries of the sequence, of whatever kind, deleted ones
\* included: every entry is counted once, in the cell of the weekday
\* (Monday = 0) and the hour (0-23) of its stamp.
C15_HeatmapTotal ==
    (pc = "returned" /\ result.call = "get_hourly_heatmap") =>
        /\ GridSum(result.returned) = Len(messages)
        /\ \A dow \in 0..6, hour \in 0..23 :
               result.returned[dow][hour]
                   = Cardinality({i \in 1..Len(messages) :
                         /\ DayOfWeek(messages[i].timestamp) = dow
                         /\ messages[i].timestamp.hour = hour})

\* a text entry of Monday 06/02/23, 9 AM and a deleted entry of Sunday
\* 12/02/23, 10 AM: one in cell (0, 9), one in cell (6, 10), two in all
C15_Witness ==
    /\ pc = "returned"
    /\ result.call = "get_hourly_heatmap"
    /\ messages = <<EntryOf(EntryLine_text), EntryOf(EntryLine_deleted)>>
    /\ messages[2].message_type = "DELETED"
    /\ result.returned[0][9] = 1
    /\ result.returned[6][10] = 1
    /\ GridSum(result.returned) = 2

(***************************************************************************)
(* Claims about two callers of one engine                                  *)
(***************************************************************************)
\* what a method returns on an engine just built over the shared entries
OnFreshEngine(call) ==
    Apply(call, messages, MetricsCalculator(messages, engine.participant_mapping))

\* no step of a call changes the shared list or a field of the engine
SharedFrame == messages' = messages /\ engine' = engine

\* every call that has returned gave the value of a fresh engine, and the
\* engine still is what its construction made it
AsFresh ==
    /\ engine = MetricsCalculator(messages, engine.participant_mapping)
    /\ \A c \in Callers :
           pc[c] = "returned" => result[c].returned = OnFreshEngine(result[c].call)

WithMapping(participant_mapping) ==
    IF result.call = "get_conversation_initiations"
    THEN get_conversation_initiations(messages, result.gap_hours)
    ELSE IF result.call = "get_immediate_replies_percentage"
    THEN get_immediate_replies_percentage(messages, result.threshold_minutes)
    ELSE Apply(result.call, messages, MetricsCalculator(messages, participant_mapping))

\* the methods that go by self.participants, the keys of the mapping
ParticipantCalls ==
    {"get_message_ratio", "get_average_message_length", "get_media_counts",
     "get_call_counts", "get_all_metrics"}

\* the senders a mapping has a label for
Mapped(participant_mapping) ==
    {participant_mapping[i].key : i \in 1..Len(participant_mapping)}

AbsentSenders == Mapped(engine.participant_mapping) \ SendersOf(messages)

\* the calls that return a dict keyed by the senders found in the entries
SenderKeyedCalls ==
    {"get_message_counts", "get_text_message_counts", "get_double_messages",
     "get_conversation_initiations", "get_response_times",
     "get_average_response_time", "get_median_response_time",
     "get_immediate_replies_percentage", "get_first_response_time",
     "get_word_counts", "get_character_counts", "get_unique_words",
     "get_emoji_counts", "get_most_used_emojis", "get_link_counts",
     "get_total_call_duration", "get_edited_message_counts"}

\* C18: for a sender that the mapping names and that wrote no entry every
\* metrics function returns, and returns a zero or nothing for that sender:
\* a ratio of 0.0, an average length of 0, zero media and call counts, and
\* no key in the results keyed by the senders of the entries.
C18_AbsentSenders ==
    Returned =>
        \A p \in AbsentSenders :
            /\ result.call \in {"get_message_ratio", "get_average_message_length"}
                   => result.returned[p] = Float(0, 1)
            /\ result.call = "get_media_counts"
                   => result.returned[p] = [name \in DOMAIN media_types |-> 0]
            /\ result.call = "get_call_counts"
                   => result.returned[p] = [name \in DOMAIN call_types |-> 0]
            /\ result.call \in SenderKeyedCalls => p \notin DOMAIN result.returned
            /\ result.call = "get_all_metrics"
                   => /\ result.returned.message_ratio[p] = Float(0, 1)
                      /\ result.returned.average_message_length[p] = Float(0, 1)
                      /\ result.returned.media_counts[p] = [name \in DOMAIN media_types |-> 0]
                      /\ result.returned.call_counts[p] = [name \in DOMAIN call_types |-> 0]
                      /\ p \notin DOMAIN result.returned.message_counts

\* the mapping names A and D, A sent an image and D nothing: the media
\* counts have a row of zeros for D
C18_Witness ==
    /\ pc = "returned"
    /\ result.call = "get_media_counts"
    /\ engine.participant_mapping = AbsentMapped
    /\ messages = <<EntryOf(EntryLine_image)>>
    /\ AbsentSenders = {SenderD}
    /\ result.returned[SenderA].images = 1
    /\ result.returned[SenderD] = [name \in DOMAIN media_types |-> 0]

(***************************************************************************)
(* Claims about the call statistics                                        *)
(***************************************************************************)
\* the answered calls of a kind, and those of them that have a duration
Answered(type) == {i \in 1..Len(messages) : messages[i].message_type = type}

Timed(type) == {i \in Answered(type) : messages[i].call_duration_seconds # None}

RECURSIVE SecondsOver(_)
\* the seconds of a set of entries with a duration, summed
SecondsOver(is) ==
    IF is = {} THEN 0
    ELSE LET i == CHOOSE x \in is : TRUE
         IN  messages[i].call_duration_seconds[1] + SecondsOver(is \ {i})

\* the mean in minutes over a set of entries with a duration, 0 over none
MinutesOver(is) ==
    IF is = {} THEN Float(0, 1) ELSE Float(SecondsOver(is), 60 * Cardinality(is))

\* m is the longest duration, in minutes, of a set of entries
IsLongest(m, is) ==
    IF is = {} THEN m = Float(0, 1)
    ELSE /\ \E i \in is : m = Float(messages[i].call_duration_seconds[1], 60)
         /\ \A i \in is : f_le(Float(messages[i].call_duration_seconds[1], 60), m)

\* m is a median, in minutes, of the durations of a set of entries: no more
\* than half of them are below it and no more than half above
IsMedian(m, is) ==
    IF is = {} THEN m = Float(0, 1)
    ELSE /\ 2 * Cardinality({i \in is :
                 ~f_le(m, Float(messages[i].call_duration_seconds[1], 60))})
                <= Cardinality(is)
         /\ 2 * Cardinality({i \in is :
                 ~f_le(Float(messages[i].call_duration_seconds[1], 60), m)})
                <= Cardinality(is)

\* C19: an answered call whose text has no duration fragment has no
\* duration (None, not 0); get_call_summary and get_calls_by_person count
\* it as a call, and their total, mean, median and longest durations go
\* over the answered calls that have a duration only.
C19_AbsentDurationNotZero ==
    /\ \A i \in Answered("VIDEO_CALL") \cup Answered("VOICE_CALL") :
           NoQuantityFound(messages[i].content)
               => messages[i].call_duration_seconds = None
    /\ (pc = "returned" /\ result.call = "get_call_summary") =>
           /\ result.returned.total_video_calls = Cardinality(Answered("VIDEO_CALL"))
           /\ result.returned.total_voice_calls = Cardinality(Answered("VOICE_CALL"))
           /\ result.returned.avg_video_duration_min = MinutesOver(Timed("VIDEO_CALL"))
           /\ result.returned.avg_voice_duration_min = MinutesOver(Timed("VOICE_CALL"))
           /\ result.returned.total_video_time_hours
                  = Float(SecondsOver(Timed("VIDEO_CALL")), 3600)
           /\ result.returned.total_voice_time_hours
                  = Float(SecondsOver(Timed("VOICE_CALL")), 3600)
           /\ IsLongest(result.returned.longest_video_call_min, Timed("VIDEO_CALL"))
           /\ IsLongest(result.returned.longest_voice_call_min, Timed("VOICE_CALL"))
           /\ IsMedian(result.returned.median_video_duration_min, Timed("VIDEO_CALL"))
    /\ (pc = "returned" /\ result.call = "get_calls_by_person") =>
           \A p \in DOMAIN result.returned :
               /\ result.returned[p].total_calls
                      = Cardinality({i \in Answered("VIDEO_CALL") \cup Answered("VOICE_CALL") :
                                        messages[i].sender = p})
               /\ Len(result.returned[p].call_durations)
                      = Cardinality({i \in Timed("VIDEO_CALL") \cup Timed("VOICE_CALL") :
                                        messages[i].sender = p})
               /\ result.returned[p].avg_call_duration_min
                      = MinutesOver({i \in Timed("VIDEO_CALL") \cup Timed("VOICE_CALL") :
                                        messages[i].sender = p})

\* a video call of 1 min 30 sec and an answered video call without a
\* duration: two video calls, a mean of 1.5 minutes and not of 0.75
C19_Witness ==
    /\ pc = "returned"
    /\ result.call = "get_call_summary"
    /\ messages = <<EntryOf(EntryLine_video_call), EntryOf(EntryLine_video_call_bare)>>
    /\ messages[1].call_duration_seconds = Some(90)
    /\ messages[2].message_type = "VIDEO_CALL"
    /\ messages[2].call_duration_seconds = None
    /\ result.returned.total_video_calls = 2
    /\ result.returned.avg_video_duration_min = Float(3, 2)
    /\ result.returned.median_video_duration_min = Float(3, 2)

(***************************************************************************)
(* Claims about the first entry of each day                                *)
(***************************************************************************)
SameDay(a, b) == a.year = b.year /\ a.month = b.month /\ a.day = b.day

\* the entries i that are the first of their sender on their day, in the
\* order of the sequence
FirstOfDay(s) ==
    {i \in 1..Len(messages) :
        /\ messages[i].sender = s
        /\ \A j \in 1..(i - 1) :
               messages[j].sender = s
                   => ~SameDay(messages[j].timestamp, messages[i].timestamp)}

\* the entries i that have the earliest stamp of their sender on their
\* day, the first of them where several have it
EarliestOfDay(s) ==
    {i \in 1..Len(messages) :
        /\ messages[i].sender = s
        /\ \A j \in 1..Len(messages) :
               (messages[j].sender = s /\ j # i
                    /\ SameDay(messages[j].timestamp, messages[i].timestamp))
                   => \/ dt_lt(messages[i].timestamp, messages[j].timestamp)
                      \/ (messages[i].timestamp = messages[j].timestamp /\ i < j)}

RECURSIVE MinutesOfDayOver(_)
\* hour * 60 + minute of the stamps of a set of entries, summed
MinutesOfDayOver(is) ==
    IF is = {} THEN 0
    ELSE LET i == CHOOSE x \in is : TRUE
         IN  messages[i].timestamp.hour * 60 + messages[i].timestamp.minute
             + MinutesOfDayOver(is \ {i})

\* the mean hour of day over a set of entries
MeanHour(is) == Float(MinutesOfDayOver(is), 60 * Cardinality(is))

\* C20 as the claim states it: for each day and sender the earliest stamp
\* is the one sample of the pair.
C20_AsStated ==
    (pc = "returned" /\ result.call = "get_first_response_time") =>
        /\ DOMAIN result.returned = SendersOf(messages)
        /\ \A s \in DOMAIN result.returned :
               result.returned[s] = MeanHour(EarliestOfDay(s))

\* C20: get_first_response_time takes, for each day and sender, the stamp
\* of the first entry of that sender on that day in the order of the
\* sequence, whether or not a later entry of the pair has an earlier stamp;
\* later entries of the pair are ignored, and the sender's value is the mean
\* of hour + minute / 60 over these stamps, one for each pair.
C20_FirstOccurrenceWins ==
    (pc = "returned" /\ result.call = "get_first_response_time") =>
        /\ DOMAIN result.returned = SendersOf(messages)
        /\ \A s \in DOMAIN result.returned :
               result.returned[s] = MeanHour(FirstOfDay(s))

\* A at 09:01, then A at 09:00 of the same day, then A at 08:59 of the next
\* day: the samples are 09:01 and 08:59, their mean is 9.0
C20_Witness ==
    /\ pc = "returned"
    /\ result.call = "get_first_response_time"
    /\ Len(messages) = 3
    /\ \A i \in 1..3 : messages[i].sender = SenderA
    /\ messages[1].timestamp = MinuteLater
    /\ messages[2].timestamp = Morning
    /\ messages[3].timestamp = AlmostDayLater
    /\ FirstOfDay(SenderA) = {1, 3}
    /\ result.returned = (SenderA :> Float(9, 1))

(***************************************************************************)
(* Claims about the total call time                                        *)
(***************************************************************************)
\* the entries of a sender that carry a duration
TimedBy(sender) ==
    {i \in 1..Len(messages) :
        messages[i].sender = sender /\ messages[i].call_duration_seconds # None}

\* the senders with at least one entry that carries a duration
TimedSenders == {messages[i].sender : i \in Timed("VIDEO_CALL") \cup Timed("VOICE_CALL")}

\* C21: get_total_call_duration has one key for each sender with a call
\* duration, and its value is the whole number of minutes in the sum of
\* that sender's durations in seconds: the division by 60 is applied once,
\* to the sum, and what is left of a minute is dropped, never rounded up.
C21_TotalCallMinutes ==
    (pc = "returned" /\ result.call = "get_total_call_duration") =>
        /\ DOMAIN result.returned = TimedSenders
        /\ \A sender \in TimedSenders :
               /\ result.returned[sender] * 60 <= SecondsOver(TimedBy(sender))
               /\ SecondsOver(TimedBy(sender)) < (result.returned[sender] + 1) * 60

\* two video calls of 1 min 30 sec by A: 180 seconds are 3 minutes, where
\* the minutes of each call summed would give 2 and rounding up 4
C21_Witness ==
    /\ pc = "returned"
    /\ result.call = "get_total_call_duration"
    /\ messages = <<EntryOf(EntryLine_video_call), EntryOf(EntryLine_video_call)>>
    /\ messages[1].call_duration_seconds = Some(90)
    /\ result.returned = (SenderA :> 3)

(***************************************************************************)
(* Claims about the date range and the day counts                          *)
(***************************************************************************)
\* the calendar date of a stamp and the date after it
DateOf(ts) == <<ts.year, ts.month, ts.day>>

Tomorrow(d) ==
    IF d[3] < DaysInMonth(d[1], d[2]) THEN <<d[1], d[2], d[3] + 1>>
    ELSE IF d[2] < 12 THEN <<d[1], d[2] + 1, 1>>
    ELSE <<d[1] + 1, 1, 1>>

DateBefore(a, b) ==
    \E i \in 1..3 : a[i] < b[i] /\ \A j \in 1..(i - 1) : a[j] = b[j]

RECURSIVE DaysUntil(_, _)
\* the number of days to go from date a to date b, negative when b is
\* before a
DaysUntil(a, b) ==
    IF a = b THEN 0
    ELSE IF DateBefore(a, b) THEN 1 + DaysUntil(Tomorrow(a), b)
    ELSE 0 - DaysUntil(b, a)

SendersIn(msgs) == {msgs[i].sender : i \in 1..Len(msgs)}

\* the first characters in which two strings differ decide, by code point;
\* a string comes after each of its proper prefixes
ComesBefore(a, b) ==
    LET common == {i \in 1..Len(a) : i <= Len(b) /\ a[i] = b[i]}
        same   == {n \in 0..Len(a) : n <= Len(b) /\ \A j \in 1..n : j \in common}
        n      == CHOOSE k \in same : \A l \in same : l <= k
    IN  IF n = Len(a) THEN n < Len(b)
        ELSE n < Len(b) /\ ord(a[n + 1]) < ord(b[n + 1])

\* the lists that hold the entries of msgs in another order
Reorderings(msgs) ==
    {[i \in 1..Len(msgs) |-> msgs[p[i]]] :
        p \in {q \in [1..Len(msgs) -> 1..Len(msgs)] :
                  \A i, j \in 1..Len(msgs) : q[i] = q[j] => i = j}}

ParticipantsOf ==
    (pc = "returned" /\ result.call = "get_participants") =>
        /\ {result.returned[i] : i \in 1..Len(result.returned)} = SendersIn(messages)
        /\ \A i, j \in 1..Len(result.returned) :
               i < j => ComesBefore(result.returned[i], result.returned[j])
        /\ \A other \in Reorderings(messages) :
               get_participants(other) = result.returned

\* C23: get_participants returns the senders of the entries, each once, in
\* ascending order of their characters' code points, a string after each
\* of its prefixes; the result is the same for the entries in any other
\* order, and the call leaves the list of entries as it was.
C23_ParticipantDirectory ==
    /\ []ParticipantsOf
    /\ [][pc' = "returned" => messages' = messages]_vars

\* entries of a, Al and a again: two participants, "Al" before "a"
C23_Witness ==
    /\ pc = "returned"
    /\ result.call = "get_participants"
    /\ Len(messages) = 3
    /\ messages[1].sender = <<"a">>
    /\ messages[2].sender = <<"A", "l">>
    /\ messages[3].sender = <<"a">>
    /\ result.returned = << <<"A", "l">>, <<"a">> >>

(***************************************************************************)
(* Claims about the number of entries                                      *)
(***************************************************************************)
\* C25: every boundary line that is neither a system notification nor a
\* line whose stamp does not parse yields exactly one entry, and no other
\* line yields one.  While the file is read, the entries emitted and the
\* open one are as many as the entry lines read, and an entry is open
\* exactly when the last boundary line read is an entry line; when the
\* file is parsed the list returned has one entry for each entry line, in
\* order, the one open at the end of the file included.
C25_ExactlyOnceEmission ==
    /\ pc = "reading" =>
           /\ Len(Entries) = Cardinality(EntryIdx)
           /\ current_message # None <=> LastBoundary \in EntryIdx
    /\ pc = "done" =>
           /\ Len(messages) = Cardinality(EntryIdx)
           /\ result = messages
           /\ \A i \in EntryIdx :
                  /\ messages[Rank(i)].timestamp = StampOf(lines[i])
                  /\ SubSeq(messages[Rank(i)].content, 1, Len(FirstContent(lines[i])))
                         = FirstContent(lines[i])

\* an entry line, a noise line, a line whose stamp does not parse and an
\* entry line that is still open at the end of the file: two entries
C25_Witness ==
    /\ pc = "done"
    /\ lines = <<Line_hello, Line_noise, Line_badts, Line_hi>>
    /\ Len(messages) = 2
    /\ messages[1].content = <<"h","e","l","l","o">>
    /\ messages[2].content = <<"h","i">>

(***************************************************************************)
(* Claims about the lines that continue an entry                           *)
(***************************************************************************)
\* what the boundary line alone says of its entry
OpenedBy(raw) ==
    CASE raw = Line_hello ->
             [message_type |-> "TEXT", call_duration_seconds |-> None,
              is_edited |-> FALSE, sender |-> <<"A","l","i","c","e">>,
              timestamp |-> StampOf(raw)]
      [] raw = Line_call ->
             [message_type |-> "VOICE_CALL", call_duration_seconds |-> Some(3900),
              is_edited |-> FALSE, sender |-> <<"A","l","i","c","e">>,
              timestamp |-> StampOf(raw)]

FixedFields ==
    {"message_type", "call_duration_seconds", "is_edited", "sender", "timestamp"}

\* every entry has the fixed fields its boundary line gave it
AsOpened ==
    \A i \in EntryIdx :
        Rank(i) <= Len(Entries) =>
            \A f \in FixedFields : Entries[Rank(i)][f] = OpenedBy(lines[i])[f]

\* a step that reads a continuation line while an entry is open changes
\* the content and the raw line of that entry and nothing else
OnlyContentGrows ==
    (pc = "reading" /\ current_message # None
        /\ \E raw \in ContinuationLines : lines' = Append(lines, raw)) =>
        /\ messages' = messages
        /\ current_message' # None
        /\ \A f \in FixedFields : current_message'[f] = current_message[f]
        /\ Len(current_message'.content) > Len(current_message.content)
        /\ Len(current_message'.raw_line) > Len(current_message.raw_line)

\* C26: the kind, the call duration, the edited flag, the sender and the
\* stamp of an entry are those its boundary line gives it; a line that
\* continues the entry adds to its content and to its raw line only, also
\* when the line holds a media, call, deletion, edited or noise marker.
C26_FixedByBoundaryLine ==
    /\ [](pc \in {"reading", "done"} => AsOpened)
    /\ [][OnlyContentGrows]_vars

\* a text entry continued by a line with a call marker and a duration and
\* by a line with the edited tag: still a text entry, no duration, not
\* edited
C26_Witness ==
    /\ pc = "done"
    /\ lines = <<Line_hello, Cont_missed, Cont_edited>>
    /\ Len(messages) = 1
    /\ messages[1].message_type = "TEXT"
    /\ messages[1].call_duration_seconds = None
    /\ messages[1].is_edited = FALSE
    /\ messages[1].content
           = <<"h","e","l","l","o">> \o <<NL>>
             \o <<"M","i","s","s","e","d"," ","v","i","d","e","o"," ","c","a","l","l",","," ","2"," ","m","i","n">>
             \o <<NL>> \o EDITED_TAG

(***************************************************************************)
(* Claims about the total of the double messages                           *)
(***************************************************************************)
RECURSIVE TotalOver(_, _)
\* the sum of the values of a dict over a set of its keys
TotalOver(d, keys) ==
    IF keys = {} THEN 0
    ELSE LET k == CHOOSE x \in keys : TRUE
         IN  d[k] + TotalOver(d, keys \ {k})

\* the entries that follow an entry of the same sender
Repeats == {i \in 2..Len(messages) : messages[i].sender = messages[i - 1].sender}

\* C27: the values of get_double_messages add up to the number of entries
\* whose sender is the sender of the entry before, which is the number of
\* entries less the number of maximal runs of one sender.
C27_DoubleMessagesTotal ==
    (pc = "engine" /\ result # None /\ result.call = "get_double_messages") =>
        /\ TotalOver(result.returned, DOMAIN result.returned) = Cardinality(Repeats)
        /\ TotalOver(result.returned, DOMAIN result.returned)
               = Len(messages) - Cardinality(Runs)

\* senders [A, A, B, A, A]: three runs, two repeats, both credited to A
C27_Witness ==
    /\ pc = "engine"
    /\ result # None
    /\ result.call = "get_double_messages"
    /\ [i \in 1..Len(messages) |-> messages[i].sender]
           = <<SenderA, SenderA, SenderB, SenderA, SenderA>>
    /\ Cardinality(Runs) = 3
    /\ result.returned = (SenderA :> 2)

(***************************************************************************)
(* Claims about the range of the response times                            *)
(***************************************************************************)
\* C28: every sample get_response_times returns is at least 0 and at most
\* 1440 minutes, whatever the order of the stamps in the list.
C28_SamplesWithinDay ==
    (pc = "returned" /\ result # None /\ result.call = "get_response_times") =>
        \A s \in DOMAIN result.returned :
            \A k \in 1..Len(result.returned[s]) :
                /\ f_le(Float(0, 1), result.returned[s][k])
                /\ f_le(result.returned[s][k], Float(1440, 1))

(***************************************************************************)
(* Claims about the active days                                            *)
(***************************************************************************)
\* the seconds of a stamp since midnight
SecondOfDay(ts) == ts.hour * 3600 + ts.minute * 60 + ts.second

\* no entry has a stamp before the stamp of the entry before it
NonDecreasing ==
    \A i \in 2..Len(messages) :
        /\ ~DateBefore(DateOf(messages[i].timestamp), DateOf(messages[i - 1].timestamp))
        /\ DateOf(messages[i].timestamp) = DateOf(messages[i - 1].timestamp)
               => SecondOfDay(messages[i - 1].timestamp) <= SecondOfDay(messages[i].timestamp)

\* the days from the date of the first entry to the date of the last
SpanInDays ==
    DaysUntil(DateOf(messages[1].timestamp), DateOf(messages[Len(messages)].timestamp)) + 1

\* C29: over a list of at least one entry whose stamps never go back,
\* get_active_days is at least 1 and at most get_total_days, whether the
\* two are asked for one by one or together in get_all_metrics.
C29_ActiveWithinTotal ==
    (pc = "returned" /\ messages # <<>> /\ NonDecreasing) =>
        /\ result.call = "get_active_days" =>
               (1 <= result.returned /\ result.returned <= SpanInDays)
        /\ result.call = "get_total_days" =>
               Cardinality({DateOf(messages[i].timestamp) : i \in 1..Len(messages)})
                   <= result.returned
        /\ result.call = "get_all_metrics" =>
               /\ 1 <= result.returned.active_days
               /\ result.returned.active_days <= result.returned.total_days

\* two entries of 06/02/23, at 9 AM and at 11:30 PM: one active day in a
\* total of one day
C29_Witness ==
    /\ pc = "returned"
    /\ result.call = "get_all_metrics"
    /\ messages = <<EntryOf(EntryLine_text), EntryOf(EntryLine_image)>>
    /\ NonDecreasing
    /\ result.returned.active_days = 1
    /\ result.returned.total_days = 1

(***************************************************************************)
(* Claims about the threshold of ten entries                               *)
(***************************************************************************)
\* the number of entry lines of a file
EntryCount(file) == Cardinality({i \in 1..Len(file) : file[i] \in EntryLines})

\* the run rendered the loading screen, that is, run_analysis_pipeline ran
PipelineRan == pc = "app" /\ widgets.page = "loading"

\* the parser returns a list of fewer than ten entries like any other, and
\* run_analysis_pipeline then stores an error and constructs no engine
ShortIsRejected ==
    (PipelineRan /\ EntryCount(lines) < 10) =>
        /\ Len(messages) = EntryCount(lines)
        /\ session_state.analysis_results = [error |-> "Not enough messages"]
        /\ engine = None

\* the upload page shows the "Start Analysis" button only when the file it
\* would start the analysis of has ten entries or more
StartOnlyWhenEnough ==
    (pc = "app" /\ "start_analysis" \in widgets.buttons) =>
        /\ session_state.uploaded_file_content # None
        /\ EntryCount(session_state.uploaded_file_content) >= 10

\* C24: a file of fewer than ten entries is parsed like any other; it is
\* run_analysis_pipeline that stores an error and returns before it
\* constructs the engine, and the upload page offers the start of the
\* analysis only when ten entries or more were parsed.
C24_TooFewEntries ==
    /\ ShortIsRejected
    /\ StartOnlyWhenEnough

(***************************************************************************)
(* Claims about the payment gate                                           *)
(***************************************************************************)
BothKeys == razorpay.key_id # "" /\ razorpay.key_secret # ""

\* the order of the session is paid at the gateway
OrderPaid ==
    /\ session_state.order_id # None
    /\ razorpay.orders[session_state.order_id[1]] = "paid"

\* every session state there could be, as far as the router reads it
RouterStates ==
    {[STATE_DEFAULTS EXCEPT !.page = page,
                            !.payment_completed = paid,
                            !.uploaded_file_content = file,
                            !.analysis_results = r] :
        page \in {"landing", "upload", "loading", "results"},
        paid \in BOOLEAN,
        file \in {None, File_ten},
        r \in {None, [error |-> "Not enough messages"]}}

\* the router sends an unpaid session to the landing page or to an upload
\* page that does the same
RouterRedirects ==
    \A s \in RouterStates :
        (~s.payment_completed /\ s.page # "landing") =>
            \/ Routed(s, razorpay).page = "landing"
            \/ /\ Routed(s, razorpay).page = "upload"
               /\ render_upload_page(Routed(s, razorpay), razorpay, "none", None).page = "none"
               /\ render_upload_page(Routed(s, razorpay), razorpay, "none", None)
                      .session_state.page = "landing"

Gated ==
    (pc = "app" /\ BothKeys) =>
        /\ widgets.page \in {"upload", "loading", "results"}
               => session_state.payment_completed
        /\ session_state.payment_completed => OrderPaid
        /\ widgets.pressed = "analyze_new" => session_state = STATE_DEFAULTS
        /\ RouterRedirects

\* payment_completed becomes true in a run started by the button that
\* verifies the payment, with the order paid at the gateway, and in no other
PaidOnlyWhenVerified ==
    (pc = "app" /\ BothKeys /\ ~session_state.payment_completed
        /\ session_state'.payment_completed) =>
        /\ widgets'.pressed = "verify"
        /\ razorpay.orders[session_state.order_id[1]] = "paid"

\* C30: with both keys configured, the upload page, the loading screen and
\* the results are rendered only while payment_completed is true, the
\* router sending every other session to the landing page; payment_completed
\* becomes true only when the gateway reports the order of the session as
\* paid; and a press of "Analyze New Chat" sets every key of STATE_DEFAULTS,
\* page and payment_completed included, to its default.
C30_PaymentGate ==
    /\ []Gated
    /\ [][PaidOnlyWhenVerified]_vars

\* a paid session was reset from the upload page: it is back at its
\* defaults, and its order is still paid at the gateway
C30_Witness ==
    /\ pc = "app"
    /\ BothKeys
    /\ widgets.pressed = "analyze_new"
    /\ session_state = STATE_DEFAULTS
    /\ razorpay.orders = <<"paid">>

====
